---- MODULE Spec2Model ----
(***************************************************************************)
(* Verification model of the euclid-macro data collection pipeline:        *)
(*   - the symbol-level incremental loader of src/src/utils.py             *)
(*     (watermark read, incremental filter, validation, staging commit,    *)
(*     bronze export),                                                     *)
(*   - the FRED sliding-window rate limiter and the fetchers' retry loops  *)
(*     (src/src/fetchers, src/src/core/base_fetcher.py),                   *)
(*   - the orchestrator of src/src/data_collection.py.                     *)
(***************************************************************************)
EXTENDS Integers, Sequences, FiniteSets, Bags, TLC

(***************************************************************************)
(* Bounds of the model.                                                    *)
(***************************************************************************)
\* Timestamps of the date column run over 0..MaxStamp, in half days.
MaxStamp == 4
\* Longest batch handed to the incremental filter.
MaxBatch == 3
\* Calendar days 0..MaxRunDay of the rows a source publishes in the staging runs.
MaxRunDay == 1
\* Most rows a source has published.
MaxUpstream == 2
\* Most rows of a staging table.
MaxRows == 3
\* Largest max_requests a limiter is built with.
MaxLimit == 2
\* Largest time_window a limiter is built with, in clock ticks.
MaxWindow == 3
\* Last tick of the clock.
MaxTime == 6
\* Most wait_if_needed calls the threads sharing a limiter make.
MaxCalls == 4
\* Most series identifiers of a FRED batch.
MaxIds == 2
\* Most runs of the pipeline.
MaxRuns == 2
\* Last second of the wall clock the snapshot names are stamped with.
MaxSecond == 1
\* Most snapshot files of the bronze tree.
MaxFiles == 3
\* Rows of data/symbols.csv
MaxSymbols == 2
\* Last month of the calendar, counted from 2008-01
MaxMonth == 5
\* Last year of the calendar of the month selection, counted from 2008
MaxYear == 2
\* Largest max_months given to fetch_batch_without_saving
MaxMonths == 3
\* Most browser sessions started
MaxSessions == 3

(***************************************************************************)
(* Data: identifiers, dates, rows, batches.                                *)
(***************************************************************************)
IdOrder == <<"AAPL", "MSFT">>

Ids == {IdOrder[k] : k \in 1..Len(IdOrder)}

\* A value of the 'date' column is a timestamp counted in half days;
\* the calendar day of timestamp s is s \div 2.
Stamps == 0..MaxStamp

Rows == [id : Ids, date : Stamps]

\* pd.to_datetime(x).dt.date : the calendar date of a timestamp.
ToDate(stamp) == stamp \div 2

\* A datetime.date written back into the date column: midnight of that day.
Midnight(day) == 2 * day

Days == {ToDate(s) : s \in Stamps}

SeqsUpTo(S, n) == UNION {[1..k -> S] : k \in 0..n}

Max(S) == CHOOSE x \in S : \A y \in S : y <= x

(***************************************************************************)
(* Source schema catalog.                                                  *)
(***************************************************************************)
\* SOURCE_SCHEMAS of src/src/utils.py
SOURCE_SCHEMAS ==
  [ yahoo |-> [required_columns  |-> <<"date", "symbol", "open", "high", "low", "close", "volume">>,
               description       |-> "Yahoo Finance OHLCV data",
               date_column       |-> "date",
               identifier_column |-> "symbol"],
    fred |-> [required_columns  |-> <<"date", "series_id", "value">>,
              description       |-> "FRED economic data",
              date_column       |-> "date",
              identifier_column |-> "series_id"],
    eia |-> [required_columns  |-> <<"date", "series_id", "value">>,
             description       |-> "EIA energy data",
             date_column       |-> "date",
             identifier_column |-> "series_id"],
    baker |-> [required_columns  |-> <<"date", "symbol", "metric", "value">>,
               description       |-> "Baker Hughes rig count data",
               date_column       |-> "date",
               identifier_column |-> "symbol"],
    finra |-> [required_columns  |-> <<"date", "symbol", "metric", "value">>,
               description       |-> "FINRA margin statistics",
               date_column       |-> "date",
               identifier_column |-> "symbol"],
    sp500 |-> [required_columns  |-> <<"date", "symbol", "metric", "value">>,
               description       |-> "S&P 500 earnings data",
               date_column       |-> "date",
               identifier_column |-> "symbol"],
    usda |-> [required_columns  |-> <<"date", "symbol", "metric", "value">>,
              description       |-> "USDA agricultural data",
              date_column       |-> "date",
              identifier_column |-> "symbol"],
    occ |-> [required_columns  |-> <<"date", "symbol", "metric", "value">>,
             description       |-> "OCC options and futures volume data",
             date_column       |-> "date",
             identifier_column |-> "symbol"] ]

CoreCatalogMutant ==
  [SOURCE_SCHEMAS EXCEPT !.occ = [required_columns  |-> <<"date", "metric", "value">>,
                                  description       |-> "OCC options and futures volume data",
                                  date_column       |-> "date",
                                  identifier_column |-> "symbol"]]

\* SOURCE_SCHEMAS of src/src/core/utils.py
CORE_SOURCE_SCHEMAS ==
  [ yahoo |-> [required_columns  |-> <<"date", "symbol", "open", "high", "low", "close", "volume">>,
               description       |-> "Yahoo Finance OHLCV data",
               date_column       |-> "date",
               identifier_column |-> "symbol"],
    fred |-> [required_columns  |-> <<"date", "series_id", "value">>,
              description       |-> "FRED economic data",
              date_column       |-> "date",
              identifier_column |-> "series_id"],
    eia |-> [required_columns  |-> <<"date", "series_id", "value">>,
             description       |-> "EIA energy data",
             date_column       |-> "date",
             identifier_column |-> "series_id"],
    baker |-> [required_columns  |-> <<"date", "symbol", "metric", "value">>,
               description       |-> "Baker Hughes rig count data",
               date_column       |-> "date",
               identifier_column |-> "symbol"],
    finra |-> [required_columns  |-> <<"date", "symbol", "metric", "value">>,
               description       |-> "FINRA margin statistics",
               date_column       |-> "date",
               identifier_column |-> "symbol"],
    sp500 |-> [required_columns  |-> <<"date", "symbol", "metric", "value">>,
               description       |-> "S&P 500 earnings data",
               date_column       |-> "date",
               identifier_column |-> "symbol"],
    usda |-> [required_columns  |-> <<"date", "symbol", "metric", "value">>,
              description       |-> "USDA agricultural data",
              date_column       |-> "date",
              identifier_column |-> "symbol"],
    occ |-> [required_columns  |-> <<"date", "symbol", "metric", "value">>,
             description       |-> "OCC options and futures volume data",
             date_column       |-> "date",
             identifier_column |-> "symbol"] ]

KnownSources == DOMAIN SOURCE_SCHEMAS

\* str.lower() on the source names the model uses.
Lower(name) ==
  CASE name = "FRED"  -> "fred"
    [] name = "Yahoo" -> "yahoo"
    [] OTHER          -> name

(***************************************************************************)
(* IncrementalDataManager.filter_incremental_data                          *)
(***************************************************************************)
\* A watermark frame latest_dates_df is a function from the identifiers it
\* lists to their latest calendar day; the empty frame has an empty domain.
NoWatermarks == [i \in {} |-> 0]

WatermarkFrames == UNION {[S -> Days] : S \in SUBSET Ids}

\* df['date'] = pd.to_datetime(df['date']).dt.date
ConvertDates(rows) ==
  [k \in 1..Len(rows) |-> [rows[k] EXCEPT !.date = Midnight(ToDate(rows[k].date))]]

KeepRowMutant(row, latest) ==
  \/ row.id \notin DOMAIN latest
  \/ ToDate(row.date) >= latest[row.id]

KeepRowWatermarkedOnly(row, latest) ==
  row.id \in DOMAIN latest /\ ToDate(row.date) > latest[row.id]

\* The mask of the left merge: latest_date is NaN, or date > latest_date.
KeepRow(row, latest) ==
  \/ row.id \notin DOMAIN latest
  \/ ToDate(row.date) > latest[row.id]

RECURSIVE SelectRows(_, _)
SelectRows(rows, latest) ==
  IF rows = <<>> THEN <<>>
  ELSE IF KeepRow(Head(rows), latest)
       THEN <<Head(rows)>> \o SelectRows(Tail(rows), latest)
       ELSE SelectRows(Tail(rows), latest)

filter_requires_watermarks(rows, source_name, latest) ==
  IF DOMAIN latest = {} THEN <<>> ELSE SelectRows(ConvertDates(rows), latest)

filter_incremental_data(rows, source_name, latest) ==
  IF rows = <<>> THEN rows
  ELSE IF DOMAIN latest = {} THEN rows
  ELSE IF Lower(source_name) \notin KnownSources THEN rows
  ELSE SelectRows(ConvertDates(rows), latest)

(***************************************************************************)
(* DataValidator.validate_dataframe                                        *)
(***************************************************************************)
Range(f) == {f[k] : k \in DOMAIN f}

\* A DataFrame: its rows, its column names, the columns of numeric dtype,
\* and whether pd.to_datetime accepts its date column.
Frame(rows, columns, numeric, parseable) ==
  [rows |-> rows, columns |-> columns, numeric |-> numeric, parseable |-> parseable,
   nulls |-> {}]

\* The frame with null values in some of its columns.
WithNulls(df, columns) == [df EXCEPT !.nulls = columns]

EmptyFrame == Frame(<<>>, {}, {}, TRUE)

NumericColumns(source_name_lower) ==
  IF source_name_lower = "yahoo" THEN {"open", "high", "low", "close", "volume"}
  ELSE IF source_name_lower \in {"fred", "eia"} THEN {"value"}
  ELSE IF source_name_lower \in {"baker", "finra", "sp500", "usda"} THEN {"value"}
  ELSE {}

NullsRejectMutant(df) == df.nulls # {}

\* if null_counts.any(): logger.warning(...) : null values are only logged.
NullsReject(df) == FALSE

validate_dataframe(df, source_name) ==
  IF df.rows = <<>> THEN FALSE
  ELSE IF Lower(source_name) \notin KnownSources THEN FALSE
  ELSE IF \E col \in Range(SOURCE_SCHEMAS[Lower(source_name)].required_columns) :
            col \notin df.columns
       THEN FALSE
  ELSE IF NullsReject(df) THEN FALSE
  ELSE IF \E col \in NumericColumns(Lower(source_name)) : col \notin df.numeric
       THEN FALSE
  ELSE df.parseable

\* DataValidator.validate_dataframe of src/src/core/utils.py, the same text
\* over the catalog of that module.
core_validate_dataframe(df, source_name) ==
  IF df.rows = <<>> THEN FALSE
  ELSE IF Lower(source_name) \notin DOMAIN CORE_SOURCE_SCHEMAS THEN FALSE
  ELSE IF \E col \in Range(CORE_SOURCE_SCHEMAS[Lower(source_name)].required_columns) :
            col \notin df.columns
       THEN FALSE
  ELSE IF NullsReject(df) THEN FALSE
  ELSE IF \E col \in NumericColumns(Lower(source_name)) : col \notin df.numeric
       THEN FALSE
  ELSE df.parseable

(***************************************************************************)
(* IncrementalDataManager.get_latest_dates_by_symbol                       *)
(***************************************************************************)
IdsOf(rows) == {rows[k].id : k \in 1..Len(rows)}

DaysOf(rows, i) == {ToDate(rows[k].date) : k \in {j \in 1..Len(rows) : rows[j].id = i}}

LatestOfGroupMutant(rows, i) == CHOOSE d \in DaysOf(rows, i) : \A e \in DaysOf(rows, i) : d <= e

\* MAX(date) of one GROUP BY group, converted with .dt.date
LatestOfGroup(rows, i) == Max(DaysOf(rows, i))

\* readOk is FALSE when the connection fails or the query raises: every such
\* path returns the empty frame.
get_latest_dates_by_symbol(exists, table, source_name, readOk) ==
  IF ~readOk THEN NoWatermarks
  ELSE IF ~exists THEN NoWatermarks
  ELSE IF Lower(source_name) \notin KnownSources THEN NoWatermarks
  ELSE [i \in IdsOf(table) |-> LatestOfGroup(table, i)]

(***************************************************************************)
(* DataPipelineManager.store_to_staging_table                              *)
(***************************************************************************)
\* The outcomes of the collaborators during one call.
\* A step that is not reached has no outcome: the upload needs the connection,
\* the export needs the upload.
Envs ==
  {e \in [readOk : BOOLEAN, connectOk : BOOLEAN, uploadOk : BOOLEAN, exportOk : BOOLEAN] :
     /\ e.uploadOk => e.connectOk
     /\ e.exportOk => e.uploadOk}

\* DuckDBManager.upload_data: append the rows to the table, creating it.
upload_data(table, rows) == table \o rows

export_to_bronze_first(files, rows, exportOk) ==
  IF rows = <<>> THEN files
  ELSE IF ~exportOk THEN files
  ELSE <<rows>> \o files

\* BronzeLayerManager.export_to_bronze: one new snapshot file holding the rows;
\* nothing is written for an empty frame or when the write fails.
export_to_bronze(files, rows, exportOk) ==
  IF rows = <<>> THEN files
  ELSE IF ~exportOk THEN files
  ELSE Append(files, rows)

\* The frame left after the incremental step of store_to_staging_table.
DeltaOf(df, exists, table, source_name, incremental, env) ==
  IF incremental
  THEN filter_incremental_data(df.rows, source_name,
         get_latest_dates_by_symbol(exists, table, source_name, env.readOk))
  ELSE df.rows

\* The call as a function of its inputs and of the store it finds: the value
\* returned (ok), whether the frame passed validation, the frame left after
\* the incremental step (delta), whether it was appended (uploaded), and the
\* table and the bronze tree left.
store_to_staging_table(df, exists, table, files, source_name, incremental, env) ==
  LET delta == DeltaOf(df, exists, table, source_name, incremental, env)
      unchanged(ok, valid, frame) ==
        [ok |-> ok, valid |-> valid, delta |-> frame, uploaded |-> FALSE,
         exists |-> exists, table |-> table, files |-> files]
  IN IF ~validate_dataframe(df, source_name) THEN unchanged(FALSE, FALSE, <<>>)
     ELSE IF incremental /\ delta = <<>> THEN unchanged(TRUE, TRUE, <<>>)
     ELSE IF ~env.connectOk THEN unchanged(FALSE, TRUE, delta)
     ELSE IF ~env.uploadOk THEN unchanged(FALSE, TRUE, delta)
     ELSE [ok |-> TRUE, valid |-> TRUE, delta |-> delta, uploaded |-> TRUE,
           exists |-> TRUE, table |-> upload_data(table, delta),
           files |-> export_to_bronze(files, delta, env.exportOk)]

(***************************************************************************)
(* State.                                                                  *)
(***************************************************************************)
(***************************************************************************)
(* FREDRateLimiter.  Time is counted in ticks of the length of the buffer  *)
(* that wait_if_needed adds to its sleep; the clock never runs backwards.  *)
(***************************************************************************)
\* time.sleep(wait_time + 0.1): the buffer, one tick.
SleepBuffer == 1

Times == 0..MaxTime

\* [req_time for req_time in self.requests if (now - req_time) < time_window]
Prune(reqs, now, window) == SelectSeq(reqs, LAMBDA t : now - t < window)

\* min(self.requests)
MinOf(reqs) == CHOOSE t \in Range(reqs) : \A u \in Range(reqs) : t <= u

WindowFullMutant(reqs, limit) == Len(reqs) > limit

\* len(self.requests) >= self.max_requests
WindowFull(reqs, limit) == Len(reqs) >= limit

\* wait_time = self.time_window - (now - oldest_request)
WaitTime(reqs, now, window) == window - (now - MinOf(reqs))

\* Whether a call that reads the clock at now goes to sleep.
MustSleep(reqs, limit, window, now) ==
  LET pruned == Prune(reqs, now, window)
  IN  WindowFull(pruned, limit) /\ WaitTime(pruned, now, window) > 0

\* The earliest tick the sleep of such a call ends.
WakeFrom(reqs, window, now) ==
  now + WaitTime(Prune(reqs, now, window), now, window) + SleepBuffer

\* One call entered at clock value now; woke is the clock value read after
\* the sleep when the call sleeps.  The timestamp recorded and the list left.
wait_if_needed(reqs, limit, window, now, woke) ==
  LET pruned == Prune(reqs, now, window)
  IN  IF MustSleep(reqs, limit, window, now)
      THEN [stamp |-> woke, requests |-> Append(Prune(pruned, woke, window), woke)]
      ELSE [stamp |-> now, requests |-> Append(pruned, now)]

(***************************************************************************)
(* Retry loops of the fetchers.                                            *)
(***************************************************************************)
\* BaseDataFetcher.__init__: self.max_retries
max_retries == 3

\* BaseDataFetcher.__init__: self.base_wait_time, in seconds
base_wait_time == 30

\* Clock ticks in a second: the 0.1 s sleep buffer of the limiter is a tick.
TicksPerSecond == 10

\* What str(exception).lower() contains: one of "too many requests", "429",
\* "rate limit" (rate), one of "bad request", "400", "not found", "404",
\* "unauthorized", "401" (client).
ErrorMessages == [rate : BOOLEAN, client : BOOLEAN]

ClassifyClientFirst(msg) ==
  IF msg.client THEN "client" ELSE IF msg.rate THEN "rate" ELSE "server"

\* The branch of handle_api_error a message takes.
Classify(msg) ==
  IF msg.rate THEN "rate" ELSE IF msg.client THEN "client" ELSE "server"

handle_api_error_flat(msg, attempt, retries) ==
  IF Classify(msg) = "client"
  THEN [retry |-> FALSE, wait |-> 0]
  ELSE IF attempt < retries - 1
       THEN [retry |-> TRUE, wait |-> base_wait_time]
       ELSE [retry |-> FALSE, wait |-> 0]

\* handle_api_error: whether to retry, and the seconds slept before returning.
handle_api_error(msg, attempt, retries) ==
  IF Classify(msg) = "client"
  THEN [retry |-> FALSE, wait |-> 0]
  ELSE IF attempt < retries - 1
       THEN [retry |-> TRUE, wait |-> base_wait_time * (2 ^ attempt)]
       ELSE [retry |-> FALSE, wait |-> 0]

\* A failed attempt: an exception raised into the retry loop, or a failure a
\* helper swallowed and reported as None or as an empty frame.  rate and
\* client describe the message of the exception.
Failures ==
  [how : {"raised", "nourl", "nofile", "emptyexcel"}, rate : BOOLEAN, client : BOOLEAN]

NoFailure == [how |-> "none", rate |-> FALSE, client |-> FALSE]

\* The failures an attempt of a fetcher can end in.
FailuresOf(kind) ==
  {f \in Failures :
     /\ f.how = "nourl" => kind = "finra"
     /\ f.how \in {"nofile", "emptyexcel"} => kind \in {"baker", "finra"}
     /\ f.how = "emptyexcel" => ~f.rate /\ ~f.client}

\* The seconds a direct fetcher sleeps before it retries after a failure its
\* helper swallowed: Baker Hughes sleeps base_wait_time after a failed
\* download, every other branch continues at once.
SwallowedWait(kind, how) ==
  IF kind = "baker" /\ how = "nofile" THEN base_wait_time ELSE 0

NextAttemptMutant(attempt) == attempt

\* for attempt in range(self.max_retries): the next value of attempt
NextAttempt(attempt) == attempt + 1

\* ... and whether the loop body runs for it.
InRange(attempt, retries) == attempt < retries

BeforeRequestMutant(kind) == "request"

\* Where an attempt starts: FRED consults the limiter first.
BeforeRequest(kind) == IF kind = "fred" THEN "limit" ELSE "request"

VARIABLES
  fDf,        \* filter check: the batch handed to filter_incremental_data
  fSource,    \* filter check: its source_name
  fLatest,    \* filter check: its latest_dates_df
  fCalled,    \* filter check: whether the call has been made
  fOut,       \* filter check: the frame returned by the call
  sSource,    \* staging: the source whose table is loaded
  upstream,   \* staging: the rows the source's fetch currently returns
  tableExists,\* staging: whether the source's staging table exists
  staging,    \* staging: the rows of the staging table, in insertion order
  bronze,     \* staging: the snapshot files of the source, in ingestion order
  lastRun,    \* staging: what the latest store_to_staging_table call did
              \*   (tick flips at every call)
  call,       \* staging: a source's run taken statement by statement: where it
              \*   is, and the locals of store_to_staging_table
  max_requests, \* limiter: self.max_requests
  time_window,  \* limiter: self.time_window, in ticks
  requests,   \* limiter: self.requests, the timestamps kept
  clock,      \* limiter: the value datetime.now() returns
  recorded,   \* limiter: every timestamp ever appended to self.requests
  lock,       \* limiter: the thread holding self.lock, or "free"
  thr,        \* limiter: where each thread is in wait_if_needed
  fetcher,    \* fetch: the fetcher running, "fred", "baker" or "finra"
  ids,        \* fetch: the series identifiers of the batch not yet started
  cur,        \* fetch: the identifier being fetched
  attempt,    \* fetch: the loop variable of the retry loop
  fpc,        \* fetch: where the fetch is
  pending,    \* fetch: the failure of the latest failed attempt
  waited,     \* fetch: seconds the retry loop slept after that failure
  slept,      \* fetch: seconds the retry loop slept for the current identifier
  rateHits,   \* fetch: rate-limit errors raised to the current identifier
  issuedHere, \* fetch: requests issued for the current identifier
  issuedAll,  \* fetch: requests issued by the fetcher
  results,    \* fetch: what each finished identifier returned
  batch,      \* fetch: the identifiers fetch_batch iterates over and its
              \*   counters successful_fetches and failed_fetches
  allowed_sources, \* pipeline: self.allowed_sources, None or a list of names,
                   \*   with the argument the pipeline was built with
  csv,        \* pipeline: data/symbols.csv: "missing", "empty", or its columns
  symbolRows, \* pipeline: the sources data/symbols.csv has rows of
  hasData,    \* pipeline: the sources whose upstream holds rows
  ppc,        \* pipeline: where run_full_pipeline is
  pidx,       \* pipeline: the position in the source order or in all_results
  all_results,\* pipeline: the frames collected, in insertion order
  raw,        \* pipeline: the per-source files under data/raw
  combined,   \* pipeline: the combined files under data/raw
  runsOk,     \* pipeline: what each finished run returned
  error,      \* pipeline: the exception that ended the latest run, if one did
  environ,    \* pipeline: the credentials set in the environment
  issued,     \* pipeline: the sources whose fetch has issued its requests in
              \*   the run, in order
  raisedBy,   \* pipeline: what raised the exception that ended the run
  bronzeTree, \* bronze tree: the rows of each snapshot file, by file name
  wallClock,  \* bronze tree: datetime.now(), in seconds
  look,       \* catalog lookups: the latest call of an operation that looks
              \*   a source up in SOURCE_SCHEMAS, and what it returned
  prep,       \* identifier preparation: the latest call that prepares the
              \*   identifier table of a source, and the table it returned
  occNow,     \* OCC coverage: the month of datetime.now(), counted from 2008-01
  stg_occ,    \* OCC coverage: the table stg_occ: whether it exists, and the
              \*   months it holds rows of
  occRun,     \* OCC coverage: what the latest OCCDailyDataFetcher.fetch_batch
              \*   did (tick flips at every call)
  sel,        \* OCC month selection: the latest call of
              \*   fetch_batch_without_saving and the months it requested
  driver,     \* browser sessions: self.driver, 0 for None or the number of
              \*   the session it refers to
  sessions,   \* browser sessions: every session started, whether it is open
              \*   and how often quit() was called on it
  spc         \* browser sessions: the function running and where it is

filterVars == <<fDf, fSource, fLatest, fCalled, fOut>>

stagingVars == <<sSource, upstream, tableExists, staging, bronze, lastRun, call>>

limiterVars == <<max_requests, time_window, requests, clock, recorded, lock, thr>>

fetchVars ==
  <<fetcher, ids, cur, attempt, fpc, pending, waited, slept, rateHits, issuedHere,
    issuedAll, results, batch>>

pipelineVars ==
  <<allowed_sources, csv, symbolRows, hasData, ppc, pidx, all_results, raw, combined, runsOk,
    error, environ, issued, raisedBy>>

treeVars == <<bronzeTree, wallClock>>

lookVars == <<look>>

prepareVars == <<prep>>

coverageVars == <<occNow, stg_occ, occRun>>

selectVars == <<sel>>

sessionVars == <<driver, sessions, spc>>

vars == <<filterVars, stagingVars, limiterVars, fetchVars, pipelineVars, treeVars, lookVars, prepareVars, coverageVars, selectVars, sessionVars>>

\* Everything but the state of the browser sessions.
notSessionVars == <<filterVars, stagingVars, limiterVars, fetchVars, pipelineVars, treeVars, lookVars, prepareVars, coverageVars, selectVars>>

\* Everything but the state of the OCC month selection.
notSelectVars == <<filterVars, stagingVars, limiterVars, fetchVars, pipelineVars, treeVars, lookVars, prepareVars, coverageVars, sessionVars>>

\* Everything but the state of the OCC coverage.
notCoverageVars == <<filterVars, stagingVars, limiterVars, fetchVars, pipelineVars, treeVars, lookVars, prepareVars, selectVars, sessionVars>>

\* Everything but the state of the identifier preparation.
notPrepareVars == <<filterVars, stagingVars, limiterVars, fetchVars, pipelineVars, treeVars, lookVars, coverageVars, selectVars, sessionVars>>

\* What each specification leaves alone.
notFilterVars == <<stagingVars, limiterVars, fetchVars, pipelineVars, treeVars, lookVars, prepareVars, coverageVars, selectVars, sessionVars>>

notStagingVars == <<filterVars, limiterVars, fetchVars, pipelineVars, treeVars, lookVars, prepareVars, coverageVars, selectVars, sessionVars>>

notLimiterVars == <<filterVars, stagingVars, fetchVars, pipelineVars, treeVars, lookVars, prepareVars, coverageVars, selectVars, sessionVars>>

notFetchVars == <<filterVars, stagingVars, pipelineVars, treeVars, lookVars, prepareVars, coverageVars, selectVars, sessionVars>>

notPipelineVars == <<filterVars, stagingVars, limiterVars, fetchVars, treeVars, lookVars, prepareVars, coverageVars, selectVars, sessionVars>>

notTreeVars == <<filterVars, stagingVars, limiterVars, fetchVars, pipelineVars, lookVars, prepareVars, coverageVars, selectVars, sessionVars>>

notLookVars == <<filterVars, stagingVars, limiterVars, fetchVars, pipelineVars, treeVars, prepareVars, coverageVars, selectVars, sessionVars>>

FilterSources == {"fred", "Yahoo", "nosuch"}

\* An exception caught by run_full_pipeline: the step that raised it, the
\* source the step belongs to, and whether the message names the source
\* ("<source> collection failed: ...").
Raised(step, source_name, context) ==
  [step |-> step, source |-> source_name, context |-> context]

NoError == Raised("none", "none", FALSE)

NoRun ==
  [kind |-> "none", valid |-> FALSE, ok |-> FALSE, delta |-> <<>>, uploaded |-> FALSE,
   tick |-> FALSE]

\* A source's run that has not started.
NewCall(incremental) ==
  [state |-> "PENDING", step |-> "none", incremental |-> incremental, df |-> EmptyFrame,
   latest |-> NoWatermarks, delta |-> <<>>, reads |-> 0, ok |-> "none", cause |-> "none",
   stopped |-> FALSE]

NoCall == NewCall(FALSE)

FilterIdle ==
  /\ fDf = <<>>
  /\ fSource = "fred"
  /\ fLatest = NoWatermarks
  /\ fCalled = FALSE
  /\ fOut = <<>>

StagingIdle ==
  /\ sSource = "fred"
  /\ upstream = <<>>
  /\ tableExists = FALSE
  /\ staging = <<>>
  /\ bronze = <<>>
  /\ lastRun = NoRun
  /\ call = NoCall

Threads == {"t1", "t2"}

\* A thread outside wait_if_needed that has completed n calls.
OutsideAfter(n) ==
  [pc |-> "outside", now |-> 0, kept |-> <<>>, until |-> 0, slept |-> FALSE, calls |-> n]

Outside == OutsideAfter(0)

LimiterIdle ==
  /\ max_requests = 1
  /\ time_window = 1
  /\ requests = <<>>
  /\ clock = 0
  /\ recorded = <<>>
  /\ lock = "free"
  /\ thr = [t \in Threads |-> Outside]

\* fetch_batch before its loop: no identifier selected, nothing counted.
NoBatch == [symbols |-> <<>>, successful_fetches |-> 0, failed_fetches |-> 0]

FetchIdle ==
  /\ fetcher = "fred"
  /\ ids = <<>>
  /\ cur = "none"
  /\ attempt = 0
  /\ fpc = "idle"
  /\ pending = NoFailure
  /\ waited = 0
  /\ slept = 0
  /\ rateHits = 0
  /\ issuedHere = 0
  /\ issuedAll = 0
  /\ results = <<>>
  /\ batch = NoBatch

PipelineIdle ==
  /\ allowed_sources = [given |-> FALSE, names |-> {}, supplied |-> FALSE, listed |-> {}]
  /\ csv = "missing"
  /\ symbolRows = {}
  /\ hasData = {}
  /\ ppc = "idle"
  /\ pidx = 0
  /\ all_results = <<>>
  /\ raw = <<>>
  /\ combined = <<>>
  /\ runsOk = <<>>
  /\ error = NoError
  /\ environ = {}
  /\ issued = <<>>
  /\ raisedBy = "none"

\* The bronze tree with no file in it.
NoFiles == [name \in {} |-> <<>>]

TreeIdle ==
  /\ bronzeTree = NoFiles
  /\ wallClock = 0

\* What an operation that looked a source up handed back: whether it raised,
\* and the value it returned (a truth value, a watermark frame, or rows).
Returned(ok, latest, rows) == [raised |-> FALSE, ok |-> ok, latest |-> latest, rows |-> rows]

\* A call of such an operation: its arguments, the store it found, and what
\* it handed back.
Lookup(op, source_name, df, exists, table, readOk, latest, out) ==
  [op |-> op, source |-> source_name, df |-> df, exists |-> exists, table |-> table,
   readOk |-> readOk, latest |-> latest, out |-> out]

\* No lookup made yet.
NoLookup ==
  Lookup("none", "none", EmptyFrame, FALSE, <<>>, TRUE, NoWatermarks,
         Returned(FALSE, NoWatermarks, <<>>))

LookIdle == look = NoLookup

\* A call that prepares the identifier table of a source: the operation, its
\* arguments, and the table handed on to the fetch.
Prepared(op, symbols_df, source, out) ==
  [op |-> op, symbols_df |-> symbols_df, source |-> source, out |-> out]

NoPrepared == Prepared("none", <<>>, "none", <<>>)

PrepareIdle == prep = NoPrepared

\* The table stg_occ: whether it exists, and the months it holds rows of.
OccTable(exists, months) == [exists |-> exists, months |-> months]

\* What a call of fetch_batch of the OCC fetcher did: whether its reads of
\* the database succeeded, the mode it chose and the months it requested.
OccFetched(tick, readable, mode, requested) ==
  [tick |-> tick, readable |-> readable, mode |-> mode, requested |-> requested]

NoOccFetch == OccFetched(FALSE, FALSE, "none", {})

\* The value None of an optional argument, and a value given for it.
None == <<>>

Some(v) == <<v>>

\* A call of fetch_batch_without_saving at a date: its arguments, and the
\* months it passed to extract_month_data_single, in order.
Selection(called, start_year, end_year, max_months, current_year, current_month, requested) ==
  [called |-> called, start_year |-> start_year, end_year |-> end_year,
   max_months |-> max_months, current_year |-> current_year,
   current_month |-> current_month, requested |-> requested]

NoSelection == Selection(FALSE, 0, None, None, 0, 1, <<>>)

SelectIdle == sel = NoSelection

\* Where a function that manages browser sessions is: the function, the
\* statement, the batch of months, the number of batches, and the calls made.
At(fn, pc, batch_num, total_batches, calls) ==
  [fn |-> fn, pc |-> pc, batch_num |-> batch_num, total_batches |-> total_batches,
   calls |-> calls]

SessionIdle ==
  /\ driver = 0
  /\ sessions = <<>>
  /\ spc = At("idle", "none", 0, 0, 0)

CoverageIdle ==
  /\ occNow = 0
  /\ stg_occ = OccTable(FALSE, {})
  /\ occRun = NoOccFetch

NotFilterIdle == StagingIdle /\ LimiterIdle /\ FetchIdle /\ PipelineIdle /\ TreeIdle /\ LookIdle /\ PrepareIdle /\ CoverageIdle /\ SelectIdle /\ SessionIdle

NotStagingIdle == FilterIdle /\ LimiterIdle /\ FetchIdle /\ PipelineIdle /\ TreeIdle /\ LookIdle /\ PrepareIdle /\ CoverageIdle /\ SelectIdle /\ SessionIdle

NotLimiterIdle == FilterIdle /\ StagingIdle /\ FetchIdle /\ PipelineIdle /\ TreeIdle /\ LookIdle /\ PrepareIdle /\ CoverageIdle /\ SelectIdle /\ SessionIdle

NotFetchIdle == FilterIdle /\ StagingIdle /\ PipelineIdle /\ TreeIdle /\ LookIdle /\ PrepareIdle /\ CoverageIdle /\ SelectIdle /\ SessionIdle

NotPipelineIdle == FilterIdle /\ StagingIdle /\ LimiterIdle /\ FetchIdle /\ TreeIdle /\ LookIdle /\ PrepareIdle /\ CoverageIdle /\ SelectIdle /\ SessionIdle

NotTreeIdle == FilterIdle /\ StagingIdle /\ LimiterIdle /\ FetchIdle /\ PipelineIdle /\ LookIdle /\ PrepareIdle /\ CoverageIdle /\ SelectIdle /\ SessionIdle

NotLookIdle == FilterIdle /\ StagingIdle /\ LimiterIdle /\ FetchIdle /\ PipelineIdle /\ TreeIdle /\ PrepareIdle /\ CoverageIdle /\ SelectIdle /\ SessionIdle

NotPrepareIdle == FilterIdle /\ StagingIdle /\ LimiterIdle /\ FetchIdle /\ PipelineIdle /\ TreeIdle /\ LookIdle /\ CoverageIdle /\ SelectIdle /\ SessionIdle

NotCoverageIdle == FilterIdle /\ StagingIdle /\ LimiterIdle /\ FetchIdle /\ PipelineIdle /\ TreeIdle /\ LookIdle /\ PrepareIdle /\ SelectIdle /\ SessionIdle

NotSelectIdle == FilterIdle /\ StagingIdle /\ LimiterIdle /\ FetchIdle /\ PipelineIdle /\ TreeIdle /\ LookIdle /\ PrepareIdle /\ CoverageIdle /\ SessionIdle

NotSessionIdle == FilterIdle /\ StagingIdle /\ LimiterIdle /\ FetchIdle /\ PipelineIdle /\ TreeIdle /\ LookIdle /\ PrepareIdle /\ CoverageIdle /\ SelectIdle

(***************************************************************************)
(* Specification of the filter as a function of its inputs.                *)
(***************************************************************************)
FilterInit ==
  /\ fDf \in SeqsUpTo(Rows, MaxBatch)
  /\ fSource \in FilterSources
  /\ fLatest \in WatermarkFrames
  /\ fCalled = FALSE
  /\ fOut = <<>>
  /\ NotFilterIdle

FilterCall ==
  /\ ~fCalled
  /\ fCalled' = TRUE
  /\ fOut' = filter_incremental_data(fDf, fSource, fLatest)
  /\ UNCHANGED <<fDf, fSource, fLatest>>
  /\ UNCHANGED notFilterVars

FilterNext == FilterCall

SpecFilter == FilterInit /\ [][FilterNext]_vars

(***************************************************************************)
(* Specification of the staging loader of one source: the upstream series  *)
(* grows, and each run fetches it and stores it.                           *)
(***************************************************************************)
\* Rows of the staging runs: daily observations, dated at midnight.
RunRows == [id : Ids, date : {Midnight(d) : d \in 0..MaxRunDay}]

RunSources == {"FRED", "nosuch"}

\* The shapes a fetched frame may have for its source: well formed, a required
\* column missing, a numeric column of object dtype, an unparseable date column.
Shapes(rows, source_name) ==
  LET columns == IF Lower(source_name) \in KnownSources
                 THEN Range(SOURCE_SCHEMAS[Lower(source_name)].required_columns)
                 ELSE {"date", "symbol", "value"}
      numeric == columns \ {"date", "symbol", "series_id", "metric"}
  IN IF rows = <<>> THEN {EmptyFrame}
     ELSE { Frame(rows, columns, numeric, TRUE),
            Frame(rows, columns \ {"value", "close"}, numeric \ {"value", "close"}, TRUE),
            Frame(rows, columns, numeric \ {"value", "close"}, TRUE),
            Frame(rows, columns, numeric, FALSE) }

StagingInit ==
  /\ NotStagingIdle
  /\ sSource \in RunSources
  /\ upstream = <<>>
  /\ tableExists = FALSE
  /\ staging = <<>>
  /\ bronze = <<>>
  /\ lastRun = NoRun
  /\ call = NoCall

\* The place of a row in a fetched frame: by identifier, then by date.
RowRank(row) ==
  Midnight(MaxRunDay + 1) * (CHOOSE k \in 1..Len(IdOrder) : IdOrder[k] = row.id) + row.date

\* The frame with one more row, in its place.
InsertRow(rows, row) ==
  LET before == SelectSeq(rows, LAMBDA r : RowRank(r) < RowRank(row))
      after == SelectSeq(rows, LAMBDA r : RowRank(r) > RowRank(row))
  IN  before \o <<row>> \o after

\* The source publishes one more observation (a new date, or a late one).
Publish ==
  /\ Len(upstream) < MaxUpstream
  /\ \E row \in RunRows \ Range(upstream) : upstream' = InsertRow(upstream, row)
  /\ UNCHANGED <<sSource, tableExists, staging, bronze, lastRun, call>>
  /\ UNCHANGED notStagingVars

\* The collaborators' outcomes that a call can observe: a rejected frame
\* reaches no collaborator, a full load does not read the watermarks.
EnvsOf(df, source_name, incremental) ==
  {e \in Envs :
     /\ validate_dataframe(df, source_name) \/ ~e.connectOk
     /\ (validate_dataframe(df, source_name) /\ incremental) \/ e.readOk}

\* One run: the fetch returns the upstream rows (or nothing, when it failed)
\* and store_to_staging_table is called on the frame.
StoreRun ==
  /\ \E fetched \in {upstream, <<>>}, incremental \in BOOLEAN :
       \E df \in Shapes(fetched, sSource) :
        \E env \in EnvsOf(df, sSource, incremental) :
         \E r \in {store_to_staging_table(df, tableExists, staging, bronze,
                                           sSource, incremental, env)} :
            /\ Len(r.table) <= MaxRows
            /\ tableExists' = r.exists
            /\ staging' = r.table
            /\ bronze' = r.files
            /\ lastRun' = [kind |-> IF incremental THEN "incremental" ELSE "full",
                           valid |-> r.valid, ok |-> r.ok, delta |-> r.delta,
                           uploaded |-> r.uploaded, tick |-> ~lastRun.tick]
  /\ UNCHANGED <<sSource, upstream, call>>
  /\ UNCHANGED notStagingVars

StagingNext == Publish \/ StoreRun

SpecStaging == StagingInit /\ [][StagingNext]_vars

(***************************************************************************)
(* Specification of one run of one source, statement by statement: the     *)
(* fetch, then store_to_staging_table on the fetched frame.  The run may   *)
(* be interrupted between two statements.                                  *)
(***************************************************************************)
\* The frame holding a set of rows, in the order of a fetched frame.
RECURSIVE FrameOf(_)
FrameOf(S) ==
  IF S = {} THEN <<>>
  ELSE LET first == CHOOSE r \in S : \A q \in S : RowRank(r) <= RowRank(q)
       IN  <<first>> \o FrameOf(S \ {first})

\* The frames a fetch returns, and the tables an earlier load left.
Batches == {FrameOf(S) : S \in {T \in SUBSET RunRows : Cardinality(T) <= MaxUpstream}}

StoreInit ==
  /\ NotStagingIdle
  /\ sSource \in RunSources
  /\ upstream \in Batches
  /\ staging \in Batches
  /\ tableExists \in {TRUE, staging # <<>>}
  /\ bronze = IF staging = <<>> THEN <<>> ELSE <<staging>>
  /\ lastRun = NoRun
  /\ call \in {NewCall(incremental) : incremental \in BOOLEAN}

\* The states of a run that has not ended.
Running == {"FETCHING", "VALIDATING", "FILTERING", "COMMITTING"}

\* The run ends in FAILED: ok is what store_to_staging_table returned.
Failed(c, ok, cause) ==
  [c EXCEPT !.state = "FAILED", !.step = "none", !.ok = ok, !.cause = cause]

\* The run is started.
BeginRun ==
  /\ call.state = "PENDING"
  /\ ~call.stopped
  /\ call' = [call EXCEPT !.state = "FETCHING"]
  /\ UNCHANGED <<sSource, upstream, tableExists, staging, bronze, lastRun>>
  /\ UNCHANGED notStagingVars

\* The fetch returns a frame, on which store_to_staging_table is called, or
\* it raises.
FetchDone ==
  /\ call.state = "FETCHING"
  /\ ~call.stopped
  /\ \/ \E fetched \in {upstream, <<>>} :
          \E df \in Shapes(fetched, sSource) :
            call' = [call EXCEPT !.state = "VALIDATING", !.df = df]
     \/ call' = Failed(call, "none", "fetch")
  /\ UNCHANGED <<sSource, upstream, tableExists, staging, bronze, lastRun>>
  /\ UNCHANGED notStagingVars

RejectsMutant(df, source_name) == FALSE

\* if not self.validator.validate_dataframe(df, source_name)
Rejects(df, source_name) == ~validate_dataframe(df, source_name)

AfterValidateMutant(incremental) == "DONE"

\* if incremental: ... , else on to the connection
AfterValidate(incremental) == IF incremental THEN "FILTERING" ELSE "COMMITTING"

\* Validate data first.
Validate ==
  /\ call.state = "VALIDATING"
  /\ ~call.stopped
  /\ call' = IF Rejects(call.df, sSource)
             THEN Failed(call, "false", "validation")
             ELSE [call EXCEPT !.state = AfterValidate(call.incremental),
                               !.step = IF call.incremental THEN "read" ELSE "connect",
                               !.delta = call.df.rows]
  /\ UNCHANGED <<sSource, upstream, tableExists, staging, bronze, lastRun>>
  /\ UNCHANGED notStagingVars

\* latest_dates_df = self.incremental_manager.get_latest_dates_by_symbol(...)
ReadWatermarks ==
  /\ call.state = "FILTERING"
  /\ call.step = "read"
  /\ ~call.stopped
  /\ \E readOk \in BOOLEAN :
       call' = [call EXCEPT !.step = "filter",
                            !.reads = call.reads + 1,
                            !.latest = get_latest_dates_by_symbol(tableExists, staging,
                                                                  sSource, readOk)]
  /\ UNCHANGED <<sSource, upstream, tableExists, staging, bronze, lastRun>>
  /\ UNCHANGED notStagingVars

\* df = self.incremental_manager.filter_incremental_data(...);
\* if df.empty: return True
FilterNew ==
  /\ call.state = "FILTERING"
  /\ call.step = "filter"
  /\ ~call.stopped
  /\ \E delta \in {filter_incremental_data(call.df.rows, sSource, call.latest)} :
       call' = IF delta = <<>>
               THEN [call EXCEPT !.state = "DONE", !.step = "none", !.delta = delta,
                                 !.ok = "true"]
               ELSE [call EXCEPT !.state = "COMMITTING", !.step = "connect",
                                 !.delta = delta]
  /\ UNCHANGED <<sSource, upstream, tableExists, staging, bronze, lastRun>>
  /\ UNCHANGED notStagingVars

\* if not self.db_manager.connect(): return False
Connect ==
  /\ call.state = "COMMITTING"
  /\ call.step = "connect"
  /\ ~call.stopped
  /\ \E connected \in BOOLEAN :
       call' = IF connected
               THEN [call EXCEPT !.step = "upload"]
               ELSE Failed(call, "false", "connect")
  /\ UNCHANGED <<sSource, upstream, tableExists, staging, bronze, lastRun>>
  /\ UNCHANGED notStagingVars

AfterUploadMutant(uploaded) == "export"

\* if not self.db_manager.upload_data(table_name, df): return False
AfterUpload(uploaded) == IF uploaded THEN "export" ELSE "failed"

\* self.db_manager.upload_data(table_name, df)
Upload ==
  /\ call.state = "COMMITTING"
  /\ call.step = "upload"
  /\ ~call.stopped
  /\ \E uploaded \in BOOLEAN :
       /\ staging' = IF uploaded THEN upload_data(staging, call.delta) ELSE staging
       /\ tableExists' = (tableExists \/ uploaded)
       /\ call' = IF AfterUpload(uploaded) = "export"
                  THEN [call EXCEPT !.step = "export",
                                    !.cause = IF uploaded THEN "none" ELSE "upload"]
                  ELSE Failed(call, "false", "upload")
  /\ UNCHANGED <<sSource, upstream, bronze, lastRun>>
  /\ UNCHANGED notStagingVars

ReturnAfterExportMutant(exported) == IF exported THEN "true" ELSE "false"

\* A failed export is logged as a warning; return True
ReturnAfterExport(exported) == "true"

ExportedMutant(c) == c.df.rows

\* The frame handed to export_to_bronze: df, which by then is the delta.
Exported(c) == c.delta

\* self.bronze_manager.export_to_bronze(df, source_name), and the return
Export ==
  /\ call.state = "COMMITTING"
  /\ call.step = "export"
  /\ ~call.stopped
  /\ \E exportOk \in BOOLEAN :
       /\ bronze' = export_to_bronze(bronze, Exported(call), exportOk)
       /\ call' = [call EXCEPT !.state = IF ReturnAfterExport(exportOk) = "true"
                                         THEN "DONE" ELSE "FAILED",
                               !.step = "none",
                               !.ok = ReturnAfterExport(exportOk),
                               !.cause = IF exportOk THEN call.cause ELSE "export"]
  /\ UNCHANGED <<sSource, upstream, tableExists, staging, lastRun>>
  /\ UNCHANGED notStagingVars

\* except Exception as e: ... return False.  A statement of the try block
\* raises: the filter, the connection or the upload.
RaiseInside ==
  /\ call.state \in {"FILTERING", "COMMITTING"}
  /\ call.step \in {"filter", "connect", "upload"}
  /\ ~call.stopped
  /\ call' = Failed(call, "false", "raised")
  /\ UNCHANGED <<sSource, upstream, tableExists, staging, bronze, lastRun>>
  /\ UNCHANGED notStagingVars

\* The process is interrupted: the run stops where it is.
Interrupt ==
  /\ call.state \in Running
  /\ ~call.stopped
  /\ call' = [call EXCEPT !.stopped = TRUE]
  /\ UNCHANGED <<sSource, upstream, tableExists, staging, bronze, lastRun>>
  /\ UNCHANGED notStagingVars

StoreNext ==
  \/ BeginRun
  \/ FetchDone
  \/ Validate
  \/ ReadWatermarks
  \/ FilterNew
  \/ Connect
  \/ Upload
  \/ Export
  \/ RaiseInside
  \/ Interrupt

SpecStore == StoreInit /\ [][StoreNext]_vars

(***************************************************************************)
(* Properties of the incremental filter.                                   *)
(***************************************************************************)
\* Number of rows of identifier i dated on calendar day d.
CountDay(rows, i, d) ==
  Cardinality({k \in 1..Len(rows) : rows[k].id = i /\ ToDate(rows[k].date) = d})

ScenarioARow(d) == [id |-> "AAPL", date |-> Midnight(d)]

ScenarioAInput ==
  /\ fLatest = [i \in {"AAPL"} |-> 1]
  /\ fDf = <<ScenarioARow(0), ScenarioARow(1), ScenarioARow(2)>>

\* C1: for a catalogued source, the rows filter_incremental_data returns are
\* exactly the rows of the batch whose identifier has no watermark entry or
\* whose calendar date is strictly later than the identifier's watermark; no
\* returned row of a watermarked identifier is dated on or before its
\* watermark; and with watermark {AAPL: day 1} and AAPL rows of days 0, 1, 2
\* exactly the row of day 2 is returned.
C1_IncrementalFilter ==
  (fCalled /\ Lower(fSource) \in KnownSources) =>
    /\ \A i \in Ids, d \in Days :
         CountDay(fOut, i, d) =
           IF i \notin DOMAIN fLatest \/ d > fLatest[i]
           THEN CountDay(fDf, i, d)
           ELSE 0
    /\ \A k \in 1..Len(fOut) :
         fOut[k].id \in DOMAIN fLatest => ToDate(fOut[k].date) > fLatest[fOut[k].id]
    /\ ScenarioAInput => fOut = <<ScenarioARow(2)>>

C1_Witness ==
  /\ fCalled
  /\ fSource = "fred"
  /\ ScenarioAInput
  /\ fOut = <<ScenarioARow(2)>>

(***************************************************************************)
(* Properties of the staging loader.                                       *)
(***************************************************************************)
\* A step of the specification that is a call of store_to_staging_table.
IsStoreRun == lastRun'.tick # lastRun.tick

\* The watermarks a successful read reports.
Watermarks(exists, table) == get_latest_dates_by_symbol(exists, table, sSource, TRUE)

\* Rows of the table before the call that are rows of identifier i.
CommittedDays(table, i) == {ToDate(table[k].date) : k \in {j \in 1..Len(table) : table[j].id = i}}

\* C3: over any sequence of runs the watermark of every identifier that has
\* one is still reported after the run and is not earlier than before.
\* (A step that leaves the table alone leaves the watermarks alone.)
C3_WatermarkMonotone ==
  [][<<tableExists, staging>>' # <<tableExists, staging>> =>
       \A before \in {Watermarks(tableExists, staging)} :
         \A after \in {Watermarks(tableExists', staging')} :
           \A i \in DOMAIN before : i \in DOMAIN after /\ after[i] >= before[i]]_vars

C3_Witness ==
  /\ lastRun.kind = "incremental"
  /\ lastRun.uploaded
  /\ lastRun.delta = <<[id |-> "AAPL", date |-> Midnight(1)]>>
  /\ staging = <<[id |-> "AAPL", date |-> Midnight(0)], [id |-> "AAPL", date |-> Midnight(1)]>>

\* C4: in an incremental run no row that the staging table already holds is
\* appended to it again.
C4_NoDuplicateIngestion ==
  [][(IsStoreRun /\ lastRun'.kind = "incremental" /\ lastRun'.uploaded) =>
       \A k \in 1..Len(lastRun'.delta) :
         \A j \in 1..Len(staging) : staging[j] # lastRun'.delta[k]]_vars

\* C5 as stated: in an incremental run every fetched row that passed
\* validation and is not yet in the staging table is part of the delta.
C5_NoRowDropped ==
  [][(IsStoreRun /\ lastRun'.kind = "incremental" /\ lastRun'.valid) =>
       \A k \in 1..Len(upstream) :
         (\A j \in 1..Len(staging) : staging[j] # upstream[k]) =>
            \E m \in 1..Len(lastRun'.delta) :
               /\ lastRun'.delta[m].id = upstream[k].id
               /\ ToDate(lastRun'.delta[m].date) = ToDate(upstream[k].date)]_vars

\* C5 amended: in an incremental run every fetched row that passed validation
\* and whose identifier has no committed row, or whose calendar date is
\* strictly later than every committed date of its identifier, is part of the
\* delta, and is in the staging table after the run when the upload succeeds.
C5_NewerRowsKept ==
  [][(IsStoreRun /\ lastRun'.kind = "incremental" /\ lastRun'.valid) =>
       \A k \in 1..Len(upstream) :
         (\A d \in CommittedDays(staging, upstream[k].id) : ToDate(upstream[k].date) > d) =>
            /\ \E m \in 1..Len(lastRun'.delta) :
                 /\ lastRun'.delta[m].id = upstream[k].id
                 /\ ToDate(lastRun'.delta[m].date) = ToDate(upstream[k].date)
            /\ lastRun'.uploaded =>
                 \E j \in (Len(staging) + 1)..Len(staging') :
                   /\ staging'[j].id = upstream[k].id
                   /\ ToDate(staging'[j].date) = ToDate(upstream[k].date)]_vars

\* An incremental run on a table that already had rows kept one fetched row
\* and dropped another.
C5_Witness ==
  /\ lastRun.kind = "incremental"
  /\ lastRun.uploaded
  /\ Len(lastRun.delta) = 1
  /\ Len(upstream) = 2
  /\ Len(staging) = 2

\* The edges of the state machine PENDING -> ... -> DONE.
ChainEdges ==
  { <<"PENDING", "FETCHING">>, <<"FETCHING", "VALIDATING">>, <<"VALIDATING", "FILTERING">>,
    <<"FILTERING", "COMMITTING">>, <<"COMMITTING", "DONE">> }

FirstFour == {"PENDING", "FETCHING", "VALIDATING", "FILTERING"}

C17_CommitOrdering ==
  [][/\ <<tableExists, staging>>' # <<tableExists, staging>> =>
          /\ call.state = "COMMITTING" /\ call.step = "upload" /\ ~call.stopped
          /\ validate_dataframe(call.df, sSource)
          /\ call.incremental =>
               /\ call.reads = 1
               /\ call.delta = filter_incremental_data(call.df.rows, sSource, call.latest)
          /\ ~call.incremental => call.reads = 0 /\ call.delta = call.df.rows
          /\ staging' = staging \o call.delta
     /\ call.state \in FirstFour => UNCHANGED <<tableExists, staging, bronze>>]_vars

\* An incremental run read the watermarks once, dropped one of two fetched
\* rows and appended the other.
C17_Witness ==
  /\ call.state = "DONE"
  /\ call.incremental
  /\ call.reads = 1
  /\ call.cause = "none"
  /\ Len(call.df.rows) = 2
  /\ Len(call.delta) = 1
  /\ Len(staging) = 2
  /\ staging[2] = call.delta[1]

\* C18: when the connection cannot be opened or the append fails,
\* store_to_staging_table returns False, the run is FAILED, and no snapshot
\* is written for the delta, then or later.
C18_WriteFailureIsHard ==
  [][/\ (call.state = "COMMITTING" /\ call'.cause \in {"connect", "upload"}) =>
          /\ call'.state = "FAILED"
          /\ call'.ok = "false"
          /\ UNCHANGED <<tableExists, staging, bronze>>
     /\ call.cause \in {"connect", "upload"} => UNCHANGED <<call, bronze>>]_vars

\* The append of an incremental delta failed.
C18_Witness ==
  /\ call.state = "FAILED"
  /\ call.cause = "upload"
  /\ call.incremental
  /\ call.delta # <<>>
  /\ call.ok = "false"

\* C19: when the snapshot cannot be written after the append succeeded,
\* store_to_staging_table still returns True, the run is DONE, and the rows
\* appended stay in the staging table.
C19_ExportFailureIsWarning ==
  [][(call.step = "export" /\ call'.cause = "export") =>
       /\ call'.state = "DONE"
       /\ call'.ok = "true"
       /\ bronze' = bronze
       /\ staging' = staging
       /\ Len(staging) >= Len(call.delta)
       /\ SubSeq(staging, Len(staging) - Len(call.delta) + 1, Len(staging)) = call.delta]_vars

\* A run ended DONE with its delta appended and no snapshot of it.
C19_Witness ==
  /\ call.state = "DONE"
  /\ call.cause = "export"
  /\ call.ok = "true"
  /\ call.delta # <<>>
  /\ Len(bronze) <= 1

\* The step in which the export of a committed delta is made, or not made
\* because the process stops there for good.
ExportStep == call.step = "export" /\ call'.step # "export"

\* The delta of the run is the tail of the table.
DeltaAppended(table, delta) ==
  /\ Len(table) >= Len(delta)
  /\ SubSeq(table, Len(table) - Len(delta) + 1, Len(table)) = delta

FirstRun == call.incremental /\ (~tableExists \/ staging = <<>>)

\* C23: in an incremental run that finds no staging table, or an empty one,
\* the watermark read returns the empty mapping, the delta is the whole
\* fetched frame, the table is written with exactly these rows, and the one
\* snapshot written holds all of them.
C23_FirstRun ==
  [][/\ (FirstRun /\ call'.reads # call.reads) => call'.latest = NoWatermarks
     /\ (FirstRun /\ call.step = "filter" /\ call'.step # "filter" /\ call'.state # "FAILED") =>
          /\ call'.delta = call.df.rows
          /\ call'.state = "COMMITTING"
     /\ (FirstRun /\ staging' # staging) => staging' = call.df.rows
     /\ (ExportStep /\ call.incremental /\ bronze = <<>> /\ call'.cause # "export") =>
          /\ staging = call.df.rows
          /\ bronze' = <<call.df.rows>>
          /\ call'.ok = "true"]_vars

\* The first run of a source with two series committed both rows and wrote
\* them as its only snapshot.
C23_Witness ==
  /\ call.state = "DONE"
  /\ call.incremental
  /\ call.reads = 1
  /\ call.latest = NoWatermarks
  /\ Len(call.df.rows) = 2
  /\ call.df.rows[1].id # call.df.rows[2].id
  /\ call.delta = call.df.rows
  /\ staging = call.df.rows
  /\ bronze = <<call.df.rows>>

\* C24: the watermark mapping a read returns has, for each identifier with
\* committed rows, the latest date of its rows in the staging table, and no
\* other entry.
C24_WatermarkConsistency ==
  [][call'.reads # call.reads =>
       call'.latest = [i \in IdsOf(staging) |-> Max(CommittedDays(staging, i))]]_vars

\* C26: storing an empty frame for a catalogued source succeeds: the call
\* returns True, the run is not FAILED, and the table and the snapshots are
\* left as they were.
C26_EmptyBatchNoOp ==
  [][( /\ call.state = "VALIDATING"
       /\ call'.state # "VALIDATING"
       /\ call.df.rows = <<>>
       /\ Lower(sSource) \in KnownSources ) =>
         /\ call'.state # "FAILED"
         /\ call'.ok = "true"
         /\ UNCHANGED <<tableExists, staging, bronze>>]_vars

\* The rows of the snapshots, replayed in ingestion order from empty.
RECURSIVE Replay(_)
Replay(files) == IF files = <<>> THEN <<>> ELSE Head(files) \o Replay(Tail(files))

TreeSources == {"fred", "yahoo"}

\* The frames exported: observations of one identifier.
TreeFrames ==
  {FrameOf(S) : S \in {T \in SUBSET {r \in RunRows : r.id = IdOrder[1]} :
                          Cardinality(T) \in 1..MaxUpstream}}

\* source_path / f"{source_name}_{timestamp}_{row_count}rows.parquet", with
\* timestamp = datetime.now().strftime("%Y%m%d_%H%M%S")
SnapshotName(source_name, timestamp, row_count) ==
  [source |-> source_name, timestamp |-> timestamp, row_count |-> row_count]

\* BronzeLayerManager.export_to_bronze on the tree: df.to_parquet writes the
\* file of that name, replacing a file of the same name; nothing is written
\* for an empty frame or when the write fails.
write_snapshot(tree, rows, source_name, timestamp, written) ==
  IF rows = <<>> THEN tree
  ELSE IF ~written THEN tree
  ELSE [name \in DOMAIN tree \cup {SnapshotName(source_name, timestamp, Len(rows))} |->
          IF name = SnapshotName(source_name, timestamp, Len(rows)) THEN rows ELSE tree[name]]

TreeInit ==
  /\ NotTreeIdle
  /\ bronzeTree = NoFiles
  /\ wallClock = 0

\* A second passes.
TreeTick ==
  /\ wallClock < MaxSecond
  /\ wallClock' = wallClock + 1
  /\ UNCHANGED bronzeTree
  /\ UNCHANGED notTreeVars

\* export_to_bronze(df, source_name) is called.
TreeExport ==
  /\ \E source_name \in TreeSources, rows \in TreeFrames \cup {<<>>}, written \in BOOLEAN :
       \E tree \in {write_snapshot(bronzeTree, rows, source_name, wallClock, written)} :
         /\ Cardinality(DOMAIN tree) <= MaxFiles
         /\ bronzeTree' = tree
  /\ UNCHANGED wallClock
  /\ UNCHANGED notTreeVars

TreeNext == TreeTick \/ TreeExport

SpecTree == TreeInit /\ [][TreeNext]_vars

(***************************************************************************)
(* Properties of the bronze tree.                                          *)
(***************************************************************************)
\* C21: a snapshot file, once written, is never modified, overwritten or
\* deleted: every file of the tree is in the tree after every step, with the
\* rows it had.
C21_WriteOnce ==
  [][\A name \in DOMAIN bronzeTree :
       name \in DOMAIN bronzeTree' /\ bronzeTree'[name] = bronzeTree[name]]_vars

(***************************************************************************)
(* Specification of the operations that look a source up in the catalog,   *)
(* each as a function of its inputs: the two copies of validate_dataframe, *)
(* get_latest_dates_by_symbol and filter_incremental_data.  One call is    *)
(* made, with any inputs.                                                  *)
(***************************************************************************)
LookSources == KnownSources \cup {"FRED", "Yahoo", "nosuch"}

\* The columns a frame fetched for a source is meant to carry.
BaseColumns(source_name) ==
  IF Lower(source_name) \in KnownSources
  THEN Range(SOURCE_SCHEMAS[Lower(source_name)].required_columns)
  ELSE {"date", "symbol", "value"}

\* The columns that hold measurements.
Measured(columns) == columns \ {"date", "symbol", "series_id", "metric"}

AtMostOne(S) == {{}} \cup {{x} : x \in S}

\* The frames handed to the validator for a source: empty, or one row with
\* some columns missing, at most one measured column of object dtype, null
\* values in at most one column, and a date column that parses or does not.
LookFrames(source_name) ==
  {EmptyFrame} \cup
  { WithNulls(Frame(<<[id |-> IdOrder[1], date |-> 0]>>,
                    BaseColumns(source_name) \ missing,
                    Measured(BaseColumns(source_name) \ missing) \ objects,
                    parseable),
              nulls \ missing) :
      missing \in SUBSET BaseColumns(source_name),
      objects \in AtMostOne(Measured(BaseColumns(source_name))),
      nulls \in AtMostOne(BaseColumns(source_name)),
      parseable \in BOOLEAN }

LookInit ==
  /\ NotLookIdle
  /\ look = NoLookup

\* DataValidator.validate_dataframe(df, source_name) of src/src/utils.py
LookValidate ==
  /\ look.op = "none"
  /\ \E source_name \in LookSources :
       \E df \in LookFrames(source_name) :
         look' = Lookup("validate", source_name, df, FALSE, <<>>, TRUE, NoWatermarks,
                        Returned(validate_dataframe(df, source_name), NoWatermarks, <<>>))
  /\ UNCHANGED notLookVars

\* DataValidator.validate_dataframe(df, source_name) of src/src/core/utils.py
LookCoreValidate ==
  /\ look.op = "none"
  /\ \E source_name \in LookSources :
       \E df \in LookFrames(source_name) :
         look' = Lookup("core_validate", source_name, df, FALSE, <<>>, TRUE, NoWatermarks,
                        Returned(core_validate_dataframe(df, source_name), NoWatermarks, <<>>))
  /\ UNCHANGED notLookVars

\* IncrementalDataManager.get_latest_dates_by_symbol(table_name, source_name)
LookWatermarks ==
  /\ look.op = "none"
  /\ \E source_name \in LookSources, table \in Batches, readOk \in BOOLEAN :
       \E exists \in {TRUE, table # <<>>} :
         look' = Lookup("watermarks", source_name, EmptyFrame, exists, table, readOk,
                        NoWatermarks,
                        Returned(TRUE,
                                 get_latest_dates_by_symbol(exists, table, source_name, readOk),
                                 <<>>))
  /\ UNCHANGED notLookVars

\* IncrementalDataManager.filter_incremental_data(df, source_name, latest_dates_df)
LookFilter ==
  /\ look.op = "none"
  /\ \E source_name \in LookSources, rows \in Batches, latest \in WatermarkFrames :
       look' = Lookup("filter", source_name,
                      IF rows = <<>> THEN EmptyFrame
                      ELSE Frame(rows, BaseColumns(source_name),
                                 Measured(BaseColumns(source_name)), TRUE),
                      FALSE, <<>>, TRUE, latest,
                      Returned(TRUE, NoWatermarks,
                               filter_incremental_data(rows, source_name, latest)))
  /\ UNCHANGED notLookVars

LookNext == LookValidate \/ LookCoreValidate \/ LookWatermarks \/ LookFilter

SpecLook == LookInit /\ [][LookNext]_vars

(***************************************************************************)
(* Properties of the catalog and of the operations that consult it.        *)
(***************************************************************************)
\* A validation of a frame with rows for a catalogued source.
Validated ==
  /\ look.op \in {"validate", "core_validate"}
  /\ Lower(look.source) \in KnownSources
  /\ look.df.rows # <<>>

\* The numeric fields the catalog's sources declare: the prices and the
\* volume of yahoo, the value of every other source.
DeclaredNumeric(source_name_lower) ==
  IF source_name_lower = "yahoo" THEN {"open", "high", "low", "close", "volume"} ELSE {"value"}

\* C25: for every catalogued source, a frame with rows that lacks a required
\* column fails validation, and a frame that has every required column
\* (numeric fields numeric, dates parseable) passes whether or not it holds
\* null values.
C25_ValidationRejection ==
  Validated =>
    /\ (BaseColumns(look.source) \ look.df.columns # {}) => ~look.out.ok
    /\ ( /\ BaseColumns(look.source) \subseteq look.df.columns
         /\ DeclaredNumeric(Lower(look.source)) \subseteq look.df.numeric
         /\ look.df.parseable ) => look.out.ok

\* A frame of macro series with null values passed.
C25_Witness ==
  /\ look.op = "validate"
  /\ look.source = "fred"
  /\ look.df.nulls = {"value"}
  /\ look.df.columns = {"date", "series_id", "value"}
  /\ look.out.ok

\* C27: for each of the eight catalogued sources, a frame in which a
\* declared numeric field is not of numeric dtype fails validation.
C27_NumericTyping ==
  ( /\ Validated
    /\ \E col \in DeclaredNumeric(Lower(look.source)) \cap look.df.columns :
         col \notin look.df.numeric ) => ~look.out.ok

\* The lookup of the source's schema is reached by the call.
LookupReached ==
  CASE look.op \in {"validate", "core_validate"} -> look.df.rows # <<>>
    [] look.op = "watermarks" -> look.readOk /\ look.exists
    [] look.op = "filter" -> look.df.rows # <<>> /\ DOMAIN look.latest # {}
    [] OTHER -> FALSE

\* C28: an operation that looks up a source absent from the catalog fails:
\* the validation rejects the frame, and the watermark read and the filter
\* raise instead of returning a result.
C28_UnknownSourceRejected ==
  (LookupReached /\ Lower(look.source) \notin KnownSources) =>
     IF look.op \in {"validate", "core_validate"} THEN ~look.out.ok ELSE look.out.raised

\* C29: in both copies of the catalog the identifier column and the date
\* column of every entry are among its required columns, the two copies
\* hold the same entries, and the two validators agree on every frame.
C29_CatalogInvariant ==
  /\ \A catalog \in {SOURCE_SCHEMAS, CORE_SOURCE_SCHEMAS} :
       \A source_name \in DOMAIN catalog :
         /\ catalog[source_name].identifier_column \in Range(catalog[source_name].required_columns)
         /\ catalog[source_name].date_column \in Range(catalog[source_name].required_columns)
  /\ CORE_SOURCE_SCHEMAS = SOURCE_SCHEMAS
  /\ look.op = "core_validate" => look.out.ok = validate_dataframe(look.df, look.source)
  /\ look.op = "validate" => look.out.ok = core_validate_dataframe(look.df, look.source)

\* The validator of the core module accepted a frame of options volumes that
\* has the identifier and the date column of the entry.
C29_Witness ==
  /\ look.op = "core_validate"
  /\ look.source = "occ"
  /\ look.out.ok
  /\ {CORE_SOURCE_SCHEMAS.occ.identifier_column, CORE_SOURCE_SCHEMAS.occ.date_column}
        \subseteq look.df.columns

(***************************************************************************)
(* Specification of one limiter called from one thread: every call of      *)
(* wait_if_needed is one step, and the clock advances between calls and    *)
(* during the sleep of a call.                                             *)
(***************************************************************************)
LimiterInit ==
  /\ max_requests \in 1..MaxLimit
  /\ time_window \in 1..MaxWindow
  /\ requests = <<>>
  /\ clock = 0
  /\ recorded = <<>>
  /\ lock = "free"
  /\ thr = [t \in Threads |-> Outside]
  /\ NotLimiterIdle

Tick ==
  /\ clock < MaxTime
  /\ clock' = clock + 1
  /\ UNCHANGED <<max_requests, time_window, requests, recorded, lock, thr>>
  /\ UNCHANGED notLimiterVars

\* The clock values the sleep of a call entered now can end at, up to latest.
WakeTimes(reqs, limit, window, now, latest) ==
  IF MustSleep(reqs, limit, window, now)
  THEN WakeFrom(reqs, window, now)..latest
  ELSE {now}

LimiterCall ==
  \E woke \in WakeTimes(requests, max_requests, time_window, clock, MaxTime) :
    \E r \in {wait_if_needed(requests, max_requests, time_window, clock, woke)} :
      /\ requests' = r.requests
      /\ recorded' = Append(recorded, r.stamp)
      /\ clock' = woke
      /\ UNCHANGED <<max_requests, time_window, lock, thr>>
      /\ UNCHANGED notLimiterVars

LimiterNext == Tick \/ LimiterCall

SpecLimiter == LimiterInit /\ [][LimiterNext]_vars

(***************************************************************************)
(* Properties of the rate limiter.                                         *)
(***************************************************************************)
\* The recorded timestamps of the trailing window (t - time_window, t].
InWindow(t) == {k \in 1..Len(recorded) : t - time_window < recorded[k] /\ recorded[k] <= t}

\* C6: after any sequence of wait_if_needed calls on a limiter (L, T), no
\* trailing interval of T ticks contains more than L recorded timestamps.
C6_RateLimit == \A t \in Times : Cardinality(InWindow(t)) <= max_requests

\* A call found the window full, slept, and recorded its request after it.
C6_Witness ==
  /\ max_requests = 2
  /\ time_window = 3
  /\ recorded = <<0, 1, 4>>
  /\ requests = <<4>>

(***************************************************************************)
(* Specification of one limiter shared by threads: wait_if_needed runs     *)
(* statement by statement, and a thread enters it by taking self.lock.     *)
(***************************************************************************)
ThreadsInit == LimiterInit

LockFreeMutant(t) == TRUE

\* threading.Lock: with self.lock blocks while another thread holds it.
LockFree(t) == lock = "free"

InCall == {t \in Threads : thr[t].pc # "outside"}

\* with self.lock:
Acquire(t) ==
  /\ thr[t].pc = "outside"
  /\ Len(recorded) + Cardinality(InCall) < MaxCalls
  /\ LockFree(t)
  /\ lock' = t
  /\ thr' = [thr EXCEPT ![t].pc = "now"]
  /\ UNCHANGED <<max_requests, time_window, requests, clock, recorded>>
  /\ UNCHANGED notLimiterVars

\* now = datetime.now()
ReadNow(t) ==
  /\ thr[t].pc = "now"
  /\ thr' = [thr EXCEPT ![t].pc = "prune", ![t].now = clock]
  /\ UNCHANGED <<max_requests, time_window, requests, clock, recorded, lock>>
  /\ UNCHANGED notLimiterVars

\* The list comprehension over self.requests is evaluated ...
PruneRead(t) ==
  /\ thr[t].pc = "prune"
  /\ thr' = [thr EXCEPT ![t].pc = "assign",
                        ![t].kept = Prune(requests, thr[t].now, time_window)]
  /\ UNCHANGED <<max_requests, time_window, requests, clock, recorded, lock>>
  /\ UNCHANGED notLimiterVars

\* ... and then bound to self.requests.
PruneAssign(t) ==
  /\ thr[t].pc = "assign"
  /\ requests' = thr[t].kept
  /\ thr' = [thr EXCEPT ![t].pc = IF thr[t].slept THEN "append" ELSE "check",
                        ![t].kept = <<>>]
  /\ UNCHANGED <<max_requests, time_window, clock, recorded, lock>>
  /\ UNCHANGED notLimiterVars

\* if len(self.requests) >= self.max_requests: ... if wait_time > 0: time.sleep(...)
CheckLimit(t) ==
  /\ thr[t].pc = "check"
  /\ thr' = IF /\ WindowFull(requests, max_requests)
               /\ WaitTime(requests, thr[t].now, time_window) > 0
            THEN [thr EXCEPT ![t].pc = "sleep",
                             ![t].until = clock + WaitTime(requests, thr[t].now, time_window)
                                                + SleepBuffer]
            ELSE [thr EXCEPT ![t].pc = "append"]
  /\ UNCHANGED <<max_requests, time_window, requests, clock, recorded, lock>>
  /\ UNCHANGED notLimiterVars

\* time.sleep returns; now = datetime.now()
Wake(t) ==
  /\ thr[t].pc = "sleep"
  /\ clock >= thr[t].until
  /\ thr' = [thr EXCEPT ![t].pc = "prune", ![t].now = clock, ![t].until = 0,
                        ![t].slept = TRUE]
  /\ UNCHANGED <<max_requests, time_window, requests, clock, recorded, lock>>
  /\ UNCHANGED notLimiterVars

\* self.requests.append(now)
AppendNow(t) ==
  /\ thr[t].pc = "append"
  /\ requests' = Append(requests, thr[t].now)
  /\ recorded' = Append(recorded, thr[t].now)
  /\ thr' = [thr EXCEPT ![t].pc = "release"]
  /\ UNCHANGED <<max_requests, time_window, clock, lock>>
  /\ UNCHANGED notLimiterVars

\* The with block is left.
Release(t) ==
  /\ thr[t].pc = "release"
  /\ lock' = "free"
  /\ thr' = [thr EXCEPT ![t] = OutsideAfter(thr[t].calls + 1)]
  /\ UNCHANGED <<max_requests, time_window, requests, clock, recorded>>
  /\ UNCHANGED notLimiterVars

ThreadStep(t) ==
  \/ Acquire(t)
  \/ ReadNow(t)
  \/ PruneRead(t)
  \/ PruneAssign(t)
  \/ CheckLimit(t)
  \/ Wake(t)
  \/ AppendNow(t)
  \/ Release(t)

ThreadsNext == Tick \/ \E t \in Threads : ThreadStep(t)

SpecThreads == ThreadsInit /\ [][ThreadsNext]_vars

\* How often timestamp v occurs in a list of timestamps.
Occurrences(reqs, v) == Cardinality({k \in 1..Len(reqs) : reqs[k] = v})

\* C8: when threads call wait_if_needed on one limiter concurrently, under
\* every interleaving no trailing window holds more than max_requests
\* recorded timestamps, at most one thread is inside the call, and no
\* recorded timestamp is lost: a timestamp that is still within the window is
\* in self.requests as often as it was recorded.
C8_ConcurrentLimiter ==
  /\ \A t \in Times : Cardinality(InWindow(t)) <= max_requests
  /\ Cardinality(InCall) <= 1
  /\ \A v \in Times :
       /\ Occurrences(requests, v) <= Occurrences(recorded, v)
       /\ clock - v < time_window => Occurrences(requests, v) = Occurrences(recorded, v)

\* Both threads have been through the limiter, and one of them holds the
\* lock asleep on a full window while the other is kept out.
C8_Witness ==
  /\ thr["t1"].calls >= 1
  /\ thr["t2"].calls >= 1
  /\ thr["t2"].pc = "sleep"
  /\ lock = "t2"
  /\ thr["t1"].pc = "outside"

(***************************************************************************)
(* Specification of one fetch: FREDFetcher.fetch_batch over a batch of     *)
(* series, or the fetch_batch of Baker Hughes or FINRA.                    *)
(***************************************************************************)
FetcherKinds == {"fred", "yahoo", "eia", "baker", "finra"}

\* The fetchers whose fetch_batch calls get_single_series for every identifier.
SeriesFetchers == {"fred", "yahoo", "eia"}

SeriesIds == {"GDP", "UNRATE"}

\* Requests the model lets one identifier issue.
MaxIssued == max_retries + 1

FetchInit ==
  /\ fetcher \in FetcherKinds
  /\ ids \in IF fetcher \in SeriesFetchers THEN SeqsUpTo(SeriesIds, MaxIds) ELSE {<<>>}
  /\ max_requests \in IF fetcher = "fred" THEN 1..MaxLimit ELSE {1}
  /\ time_window \in IF fetcher = "fred" THEN 1..MaxWindow ELSE {1}
  /\ requests = <<>>
  /\ clock = 0
  /\ recorded = <<>>
  /\ lock = "free"
  /\ thr = [t \in Threads |-> Outside]
  /\ cur = "none"
  /\ attempt = 0
  /\ fpc = "start"
  /\ pending = NoFailure
  /\ waited = 0
  /\ slept = 0
  /\ rateHits = 0
  /\ issuedHere = 0
  /\ issuedAll = 0
  /\ results = <<>>
  /\ batch = NoBatch
  /\ NotFetchIdle

limiterFields == <<max_requests, time_window, lock, thr>>

AfterReturnMutant(kind) == "done"

\* The pc after a return of get_single_series or of a direct fetch_batch.
AfterReturn(kind) == IF kind \in SeriesFetchers THEN "next" ELSE "done"

\* fetch_batch is entered.
FetchStart ==
  /\ fpc = "start"
  /\ IF fetcher \in SeriesFetchers
     THEN /\ fpc' = IF ids = <<>> THEN "done" ELSE "next"
          /\ batch' = [NoBatch EXCEPT !.symbols = ids]
          /\ UNCHANGED cur
     ELSE /\ fpc' = "loop"
          /\ cur' = fetcher
          /\ UNCHANGED batch
  /\ UNCHANGED <<fetcher, ids, attempt, pending, waited, slept, rateHits, issuedHere,
                 issuedAll, results>>
  /\ UNCHANGED <<limiterVars, notFetchVars>>

\* What an identifier's fetch hands back: the frame returned ("data" or
\* "empty"), or "failed" for an exception that fetch_batch catches; gaveUp
\* tells a fetch that ended on a failed attempt from one that was answered.
Outcome(id, result, gaveUp) == [id |-> id, result |-> result, gaveUp |-> gaveUp]

\* all_data: the frames fetch_batch has appended, one for every identifier
\* whose fetch returned rows.
all_data(outcomes) == SelectSeq(outcomes, LAMBDA o : o.result = "data")

\* The counters of the loop of fetch_batch after an identifier ended in
\* result: FRED and Yahoo count in the loop, EIA keeps no counter there.
Counted(kind, b, result) ==
  IF kind \in {"fred", "yahoo"}
  THEN IF result = "data"
       THEN [b EXCEPT !.successful_fetches = @ + 1]
       ELSE [b EXCEPT !.failed_fetches = @ + 1]
  ELSE b

\* log_collection_summary(all_data, total_symbols): its two counters.
log_collection_summary(b, outcomes) ==
  [b EXCEPT !.successful_fetches = Len(all_data(outcomes)),
            !.failed_fetches = Len(b.symbols) - Len(all_data(outcomes))]

\* for ... in fred_symbols.iterrows(): the next row is taken and its fetch
\* begins, or strptime raises on its start date inside the try and the row
\* is counted as failed; after the last row, log_collection_summary.
NextSeries ==
  /\ fpc = "next"
  /\ IF ids = <<>>
     THEN /\ fpc' = "done"
          /\ batch' = log_collection_summary(batch, results)
          /\ UNCHANGED <<ids, cur, attempt, pending, waited, slept, rateHits, issuedHere,
                         results>>
     ELSE /\ cur' = Head(ids)
          /\ ids' = Tail(ids)
          /\ attempt' = 0
          /\ pending' = NoFailure
          /\ waited' = 0
          /\ slept' = 0
          /\ rateHits' = 0
          /\ issuedHere' = 0
          /\ \/ /\ fpc' = "loop"
                /\ UNCHANGED <<results, batch>>
             \/ /\ fpc' = AfterReturn(fetcher)
                /\ results' = Append(results, Outcome(Head(ids), "failed", FALSE))
                /\ batch' = Counted(fetcher, batch, "failed")
  /\ UNCHANGED <<fetcher, issuedAll>>
  /\ UNCHANGED <<limiterVars, notFetchVars>>

\* for attempt in range(self.max_retries): the loop body is entered, or the
\* loop is exhausted (FRED and Yahoo raise, which fetch_batch catches; the
\* others return an empty frame).
LoopHead ==
  /\ fpc = "loop"
  /\ IF InRange(attempt, max_retries)
     THEN /\ fpc' = BeforeRequest(fetcher)
          /\ UNCHANGED <<results, batch>>
     ELSE /\ fpc' = AfterReturn(fetcher)
          /\ results' = Append(results,
                            Outcome(cur, IF fetcher \in {"fred", "yahoo"} THEN "failed"
                                         ELSE "empty", TRUE))
          /\ batch' = Counted(fetcher, batch, "failed")
  /\ UNCHANGED <<fetcher, ids, cur, attempt, pending, waited, slept, rateHits, issuedHere,
                 issuedAll>>
  /\ UNCHANGED <<limiterVars, notFetchVars>>

\* self.rate_limiter.wait_if_needed()
Limit ==
  /\ fpc = "limit"
  /\ \E woke \in WakeTimes(requests, max_requests, time_window, clock,
                            clock + time_window + SleepBuffer) :
       \E r \in {wait_if_needed(requests, max_requests, time_window, clock, woke)} :
         /\ requests' = r.requests
         /\ recorded' = Append(recorded, r.stamp)
         /\ clock' = woke
  /\ fpc' = "request"
  /\ UNCHANGED <<fetcher, ids, cur, attempt, pending, waited, slept, rateHits, issuedHere,
                 issuedAll, results, batch>>
  /\ UNCHANGED <<limiterFields, notFetchVars>>

\* Whether a failure is a rate-limit error raised into the retry loop.
RaisedRateLimit(failure) == failure.how = "raised" /\ failure.rate

\* The request of the attempt: the API call of a series fetcher, or the
\* download and the processing of the direct fetchers.  It returns data,
\* returns nothing (the series fetchers), or fails.
Request ==
  /\ fpc = "request"
  /\ issuedHere < MaxIssued
  /\ issuedHere' = issuedHere + 1
  /\ issuedAll' = issuedAll + 1
  /\ \/ /\ \E res \in IF fetcher \in SeriesFetchers THEN {"data", "empty"} ELSE {"data"} :
             /\ results' = Append(results, Outcome(cur, res, FALSE))
             /\ batch' = Counted(fetcher, batch, res)
        /\ fpc' = AfterReturn(fetcher)
        /\ UNCHANGED <<pending, waited, rateHits>>
     \/ /\ \E f \in FailuresOf(fetcher) :
             /\ pending' = f
             /\ rateHits' = IF RaisedRateLimit(f) THEN rateHits + 1 ELSE rateHits
        /\ waited' = 0
        /\ fpc' = "handle"
        /\ UNCHANGED <<results, batch>>
  /\ UNCHANGED <<fetcher, ids, cur, attempt, slept>>
  /\ UNCHANGED <<limiterVars, notFetchVars>>

\* What the retry loop does with a failed attempt: whether it goes on to the
\* next attempt, and the seconds it sleeps first.
OnFailure(kind, failure, att) ==
  IF failure.how = "raised"
  THEN handle_api_error(failure, att, max_retries)
  ELSE IF att < max_retries - 1
       THEN [retry |-> TRUE, wait |-> SwallowedWait(kind, failure.how)]
       ELSE [retry |-> FALSE, wait |-> 0]

\* except Exception: handle_api_error(...), or the branch of a swallowed
\* failure: sleep and continue, or return an empty frame.
Handle ==
  /\ fpc = "handle"
  /\ \E r \in {OnFailure(fetcher, pending, attempt)} :
       IF r.retry
       THEN /\ waited' = r.wait
            /\ slept' = slept + r.wait
            /\ clock' = clock + r.wait * TicksPerSecond
            /\ attempt' = NextAttempt(attempt)
            /\ fpc' = "loop"
            /\ UNCHANGED <<results, batch>>
       ELSE /\ results' = Append(results, Outcome(cur, "empty", TRUE))
            /\ batch' = Counted(fetcher, batch, "empty")
            /\ fpc' = AfterReturn(fetcher)
            /\ UNCHANGED <<waited, slept, clock, attempt>>
  /\ UNCHANGED <<fetcher, ids, cur, pending, rateHits, issuedHere, issuedAll>>
  /\ UNCHANGED <<max_requests, time_window, requests, recorded, lock, thr>>
  /\ UNCHANGED notFetchVars

FetchNext ==
  \/ FetchStart
  \/ NextSeries
  \/ LoopHead
  \/ Limit
  \/ Request
  \/ Handle

SpecFetch == FetchInit /\ [][FetchNext]_vars

(***************************************************************************)
(* Properties of the fetchers.                                             *)
(***************************************************************************)
\* C7: in FREDFetcher every request, first attempt or retry and for every
\* identifier of the batch, is preceded by one wait_if_needed call on the
\* fetcher's limiter: the timestamps recorded are as many as the requests
\* issued, counting the request the limiter has just admitted.
C7_LimiterBeforeRequest ==
  fetcher = "fred" =>
    Len(recorded) = issuedAll + (IF fpc = "request" THEN 1 ELSE 0)

\* The limiter has admitted the retry of the second identifier of a batch.
C7_Witness ==
  /\ fetcher = "fred"
  /\ Len(results) = 1
  /\ attempt = 1
  /\ fpc = "request"
  /\ issuedAll >= 2

\* C9: for every identifier and every sequence of errors a fetch issues at
\* most max_retries requests, numbered below max_retries.
C9_BoundedAttempts ==
  /\ issuedHere <= max_retries
  /\ issuedHere <= attempt + 1
  /\ fpc \in {"limit", "request", "handle"} => attempt < max_retries

\* A fetch gave up after max_retries failed requests.
C9_Witness ==
  /\ issuedHere = max_retries
  /\ pending.how = "raised"
  /\ fpc \in {"next", "done"}
  /\ results # <<>>
  /\ results[Len(results)].result = "empty"

\* A step that issues a request.
IsRequest == issuedAll' = issuedAll + 1

\* The failure is RateLimited or TransientServer.
Retryable(failure) ==
  failure.how \in {"raised", "nofile"} /\ Classify(failure) \in {"rate", "server"}

\* C10: in every fetcher's retry loop, a retry that follows a RateLimited or
\* TransientServer failure of attempt a is preceded by a wait of at least
\* base_wait_time * 2^a seconds.
C10_Backoff ==
  [][(IsRequest /\ attempt >= 1 /\ Retryable(pending)) =>
       waited >= base_wait_time * (2 ^ (attempt - 1))]_vars

\* A step in which the request of an attempt is answered with data.
Answered ==
  /\ IsRequest
  /\ fpc' # "handle"
  /\ results'[Len(results')].result = "data"

ClientError(failure) ==
  failure.how \in {"raised", "nofile"} /\ Classify(failure) = "client"

\* C12: an attempt that failed with a client error ends the fetch of the
\* identifier at once: no wait, no further attempt.
C12_ClientErrorNotRetried ==
  [][(fpc = "handle" /\ ClientError(pending)) =>
       /\ fpc' = AfterReturn(fetcher)
       /\ attempt' = attempt
       /\ clock' = clock]_vars

\* C13: a fetch in which an identifier gave up (retries exhausted, or a
\* client error) does not return normally: fetch_batch returns a frame only
\* when no identifier gave up.
C13_TerminalFailureEscalates ==
  fpc = "done" => \A k \in 1..Len(results) : ~results[k].gaveUp

\* A step of the retry loop that handles an exception raised by the request.
HandlesRaised == fpc = "handle" /\ pending.how = "raised"

\* The step goes on to the next attempt after sleeping the backoff of the
\* attempt that failed.
RetriedWithBackoff ==
  /\ fpc' = "loop"
  /\ attempt' = attempt + 1
  /\ waited' = base_wait_time * (2 ^ attempt)
  /\ clock' = clock + waited' * TicksPerSecond

\* The step ends the fetch of the identifier without sleeping.
NotRetried ==
  /\ fpc' = AfterReturn(fetcher)
  /\ attempt' = attempt
  /\ clock' = clock

\* C33: handle_api_error classifies an exception by its message alone, the
\* rate-limit indicators taking precedence.  A message with a rate-limit
\* indicator, with or without a client-error indicator, is retried with
\* backoff while attempt < max_retries - 1; a message with a client-error
\* indicator only is never retried; a message with neither is retried with
\* the same backoff; beyond the last attempt nothing is retried.  The
\* outcome is fixed by the message, the attempt and max_retries.
C33_ClassificationPrecedence ==
  [][HandlesRaised =>
       /\ (pending.rate /\ attempt < max_retries - 1) => RetriedWithBackoff
       /\ (~pending.rate /\ pending.client) => NotRetried
       /\ (~pending.rate /\ ~pending.client /\ attempt < max_retries - 1)
            => RetriedWithBackoff
       /\ attempt >= max_retries - 1 => NotRetried]_vars

\* An exception whose message holds a rate-limit and a client-error
\* indicator was retried after the backoff of the second attempt.
C33_Witness ==
  /\ pending.how = "raised"
  /\ pending.rate
  /\ pending.client
  /\ attempt = 2
  /\ waited = base_wait_time * 2
  /\ fpc = "loop"

\* The identifiers of the outcomes, in order.
IdsOfOutcomes(outcomes) == [k \in 1..Len(outcomes) |-> outcomes[k].id]

\* Whether the fetch of the current identifier is under way.
InFlight == fpc \in {"loop", "limit", "request", "handle"}

\* C34: in the fetch_batch of FRED, Yahoo and EIA the identifiers of the
\* batch are attempted one after the other, each exactly once and whatever
\* the earlier ones ended in (data, an empty frame or an exception): the
\* identifiers finished are an initial part of the batch, the others are
\* still to come, and the batch ends only when all are finished.  In the
\* loops of FRED and Yahoo every finished identifier is counted once, as
\* successful or as failed, and at the end of every batch
\* successful_fetches + failed_fetches is the number of identifiers.
C34_PerIdentifierIsolation ==
  (fetcher \in SeriesFetchers /\ fpc \notin {"idle", "start"}) =>
    /\ IdsOfOutcomes(results) \o (IF InFlight THEN <<cur>> ELSE <<>>) \o ids
         = batch.symbols
    /\ (fetcher \in {"fred", "yahoo"} /\ fpc # "done") =>
         batch.successful_fetches + batch.failed_fetches = Len(results)
    /\ fpc = "done" =>
         /\ IdsOfOutcomes(results) = batch.symbols
         /\ batch.successful_fetches = Len(all_data(results))
         /\ batch.successful_fetches + batch.failed_fetches = Len(batch.symbols)

\* A batch of two identifiers has ended: the first raised inside the loop
\* body before any request, the second was answered with data.
C34_Witness ==
  /\ fetcher = "fred"
  /\ fpc = "done"
  /\ Len(batch.symbols) = 2
  /\ results[1] = Outcome(batch.symbols[1], "failed", FALSE)
  /\ results[2] = Outcome(batch.symbols[2], "data", FALSE)
  /\ batch.successful_fetches = 1
  /\ batch.failed_fetches = 1

(***************************************************************************)
(* Specification of DataCollectionPipeline.run_full_pipeline, run after    *)
(* run against an upstream that does not change.  A frame is known by      *)
(* whether it is empty; the files of a run carry the time of the run, and  *)
(* runs are taken to start in different seconds.                           *)
(***************************************************************************)
\* collect_symbol_based_data, in its order.
SymbolBased == <<"yahoo", "fred", "eia">>

\* collect_direct_source_data, in its order.
Direct == <<"baker", "finra", "sp500", "usda", "occ">>

CollectOrder == SymbolBased \o Direct

\* self.allowed_sources is None, no argument given
NoAllowList == [given |-> FALSE, names |-> {}, supplied |-> FALSE, listed |-> {}]

\* DataCollectionPipeline.__init__(allowed_sources): the lower-cased list, or
\* None when the argument is None or empty.  supplied and listed keep the
\* argument.
AllowListOf(supplied, listed) ==
  IF supplied /\ listed # {}
  THEN [given |-> TRUE, names |-> {Lower(name) : name \in listed},
        supplied |-> supplied, listed |-> listed]
  ELSE [given |-> FALSE, names |-> {}, supplied |-> supplied, listed |-> listed]

\* The allow-lists a pipeline is built with.
AllowLists ==
  {NoAllowList} \cup {AllowListOf(TRUE, listed) : listed \in SUBSET {"FRED", "baker", "occ"}}

\* data/symbols.csv with rows: with the columns symbol, source, description,
\* date_series_start ("plain"), or with a source column beside the columns
\* string.symbol, string.source, date.series.start and no symbol column
\* ("dotted").
CsvShapes == {"missing", "empty", "plain", "dotted"}

\* The sources whose upstream may hold rows; the others return empty frames.
Publishing == {"yahoo", "fred", "baker", "occ"}

\* The credentials the fetchers require of the environment.
Credentials == {"FRED_API_KEY", "EIA_TOKEN"}

\* The credentials the constructor of a source's fetcher loads with
\* load_environment_variable(..., required=True).
Required(source_name) ==
  IF source_name = "fred" THEN {"FRED_API_KEY"}
  ELSE IF source_name = "eia" THEN {"EIA_TOKEN"}
  ELSE {}

\* load_environment_variable: whether it returns for every credential the
\* constructor asks for; it raises ValueError for one that is not set.
load_environment_variable(env, source_name) == Required(source_name) \subseteq env

\* _is_source_allowed
is_source_allowed(allowed, source_name) ==
  IF ~allowed.given THEN TRUE ELSE Lower(source_name) \in allowed.names

\* Whether the collection calls the fetcher of a source.
IsFetched(allowed, rows, source_name) ==
  /\ is_source_allowed(allowed, source_name)
  /\ source_name \in Range(SymbolBased) => source_name \in rows

PipelineInit ==
  /\ allowed_sources \in AllowLists
  /\ csv \in CsvShapes
  /\ symbolRows \in SUBSET Range(SymbolBased)
  /\ csv \in {"missing", "empty"} => symbolRows = {}
  /\ hasData \in SUBSET Publishing
  /\ \A src \in hasData :
       /\ csv \in {"plain", "dotted"}
       /\ IsFetched(allowed_sources, symbolRows, src)
  /\ ppc = "ready"
  /\ pidx = 0
  /\ all_results = <<>>
  /\ raw = <<>>
  /\ combined = <<>>
  /\ runsOk = <<>>
  /\ error = NoError
  /\ environ \in SUBSET Credentials
  /\ issued = <<>>
  /\ raisedBy = "none"
  /\ NotPipelineIdle

\* The run being made.
ThisRun == Len(runsOk) + 1

\* except Exception: ... return False
ReturnFalse ==
  /\ runsOk' = Append(runsOk, FALSE)
  /\ ppc' = "ready"
  /\ pidx' = 0

\* run_full_pipeline is entered: symbols.csv is loaded.
StartRun ==
  /\ ppc = "ready"
  /\ Len(runsOk) < MaxRuns
  /\ all_results' = <<>>
  /\ issued' = <<>>
  /\ IF csv \in {"missing", "empty"}
     THEN ReturnFalse /\ error' = Raised("load", "none", FALSE) /\ raisedBy' = "load"
     ELSE /\ ppc' = "collect"
          /\ pidx' = 1
          /\ error' = NoError
          /\ raisedBy' = "none"
          /\ UNCHANGED runsOk
  /\ UNCHANGED <<allowed_sources, csv, symbolRows, hasData, raw, combined, environ>>
  /\ UNCHANGED notPipelineVars

\* What the fetch of a source can end in: a frame, or an exception.  A
\* symbol-based fetcher reads the column string.source of the table it is
\* handed, which the table prepared from a plain symbols.csv does not have.
FetchOutcomes(source_name) ==
  IF source_name \in Range(SymbolBased) /\ csv = "plain"
  THEN {"raise"}
  ELSE {IF source_name \in hasData THEN "data" ELSE "empty", "raise"}

\* What a call of fetch_<source>(symbols) does, statement by statement: the
\* constructor of the fetcher loads its credentials and raises for a missing
\* one ("credential"); fetch_batch of a symbol-based fetcher selects its rows
\* by the column string.source and raises KeyError without it ("shape");
\* then the requests are issued, and a frame is returned or something else
\* raises ("other").
CallFetcher(env, source_name, outcome) ==
  IF ~load_environment_variable(env, source_name)
  THEN [raised |-> TRUE, cause |-> "credential", issued |-> FALSE]
  ELSE IF FetchOutcomes(source_name) = {"raise"}
       THEN [raised |-> TRUE, cause |-> "shape", issued |-> FALSE]
       ELSE IF outcome = "raise"
            THEN [raised |-> TRUE, cause |-> "other", issued |-> TRUE]
            ELSE [raised |-> FALSE, cause |-> "none", issued |-> TRUE]

\* The next source of collect_symbol_based_data and collect_direct_source_data.
CollectStep ==
  /\ ppc = "collect"
  /\ \E src \in {CollectOrder[pidx]} :
       IF ~IsFetched(allowed_sources, symbolRows, src)
       THEN /\ pidx' = IF pidx = Len(CollectOrder) THEN 1 ELSE pidx + 1
            /\ ppc' = IF pidx = Len(CollectOrder) THEN "save" ELSE "collect"
            /\ UNCHANGED <<all_results, runsOk, error, issued, raisedBy>>
       ELSE \E outcome \in FetchOutcomes(src) :
            \E r \in {CallFetcher(environ, src, outcome)} :
              /\ issued' = IF r.issued THEN Append(issued, src) ELSE issued
              /\ raisedBy' = r.cause
              /\ IF r.raised
                 THEN /\ ReturnFalse
                      /\ error' = Raised("fetch", src, TRUE)
                      /\ UNCHANGED all_results
                 ELSE /\ all_results' = Append(all_results, [source |-> src, data |-> outcome = "data"])
                      /\ pidx' = IF pidx = Len(CollectOrder) THEN 1 ELSE pidx + 1
                      /\ ppc' = IF pidx = Len(CollectOrder) THEN "save" ELSE "collect"
                      /\ UNCHANGED <<runsOk, error>>
  /\ UNCHANGED <<allowed_sources, csv, symbolRows, hasData, raw, combined, environ>>
  /\ UNCHANGED notPipelineVars

\* save_source_data: a frame that is not empty is written to a new file
\* named after the source and the time.
save_source_data(files, entry, run) ==
  IF entry.data THEN Append(files, [source |-> entry.source, run |-> run]) ELSE files

\* for source, data in all_results.items(): save_source_data(source, data),
\* which may raise (a frame without a date column, a failed write); the
\* exception reaches the handler of run_full_pipeline as it is.
SaveStep ==
  /\ ppc = "save"
  /\ pidx <= Len(all_results)
  /\ \E saved \in BOOLEAN :
       IF saved \/ ~all_results[pidx].data
       THEN /\ raw' = save_source_data(raw, all_results[pidx], ThisRun)
            /\ pidx' = pidx + 1
            /\ UNCHANGED <<ppc, runsOk, error, raisedBy>>
       ELSE /\ ReturnFalse
            /\ error' = Raised("save", all_results[pidx].source, FALSE)
            /\ raisedBy' = "save"
            /\ UNCHANGED raw
  /\ UNCHANGED <<allowed_sources, csv, symbolRows, hasData, all_results, combined, environ,
                 issued>>
  /\ UNCHANGED notPipelineVars

\* save_combined_data, and return True.
CombineStep ==
  /\ ppc = "save"
  /\ pidx > Len(all_results)
  /\ combined' = IF \E k \in 1..Len(all_results) : all_results[k].data
                 THEN Append(combined, [run |-> ThisRun])
                 ELSE combined
  /\ runsOk' = Append(runsOk, TRUE)
  /\ ppc' = "ready"
  /\ pidx' = 0
  /\ UNCHANGED <<allowed_sources, csv, symbolRows, hasData, all_results, raw, error, environ,
                 issued, raisedBy>>
  /\ UNCHANGED notPipelineVars

PipelineNext == StartRun \/ CollectStep \/ SaveStep \/ CombineStep

SpecPipeline == PipelineInit /\ [][PipelineNext]_vars

(***************************************************************************)
(* Properties of the pipeline.                                             *)
(***************************************************************************)
\* C2: when the pipeline is run again after a run that returned True, with
\* no upstream change, the second run writes no rows: no source has a file
\* written by a run that follows a successful run which wrote that source.
C2_Idempotent ==
  \A j \in 1..Len(raw), k \in 1..Len(raw) :
    (raw[j].source = raw[k].source /\ raw[j].run < raw[k].run) =>
       ~(raw[j].run <= Len(runsOk) /\ runsOk[raw[j].run])

\* The place of a source in the order of the collection.
PlaceOf(source_name) == CHOOSE k \in 1..Len(CollectOrder) : CollectOrder[k] = source_name

\* A step in which a step of a source raises and ends the run.
SourceFails == runsOk' = Append(runsOk, FALSE) /\ error'.step \in {"fetch", "save"}

\* C14: when a step of a source raises, the run ends and returns False, the
\* exception carries the name of the source, and no source later in the
\* order has been fetched in the run.
C14_FailFast ==
  [][SourceFails =>
       /\ ppc' = "ready"
       /\ error'.context
       /\ \A k \in 1..Len(all_results) :
            PlaceOf(all_results[k].source) <= PlaceOf(error'.source)]_vars

\* C15: when a source fails during a run, the data of every source
\* processed before it in the run is in a file written by the run.
C15_NoRollback ==
  [][SourceFails =>
       \A k \in 1..Len(all_results) :
         (all_results[k].data /\ PlaceOf(all_results[k].source) < PlaceOf(error'.source)) =>
            \E j \in 1..Len(raw') :
              raw'[j] = [source |-> all_results[k].source, run |-> ThisRun]]_vars

\* A step in which the fetcher of a source is called.
Fetches(source_name) ==
  /\ ppc = "collect"
  /\ CollectOrder[pidx] = source_name
  /\ \/ all_results' # all_results
     \/ runsOk' # runsOk /\ error'.step = "fetch"

\* C30: when an allow-list is supplied, the fetcher of a source is called
\* only if an entry of the list is the source's name up to case; when none
\* is supplied, no source is skipped (a symbol-based source is fetched when
\* symbols.csv has rows of it).
C30_AllowList ==
  [][\A source_name \in Range(CollectOrder) :
       /\ (Fetches(source_name) /\ allowed_sources.supplied) =>
            \E name \in allowed_sources.listed : Lower(name) = source_name
       /\ ( /\ ppc = "collect"
            /\ CollectOrder[pidx] = source_name
            /\ ~allowed_sources.supplied
            /\ source_name \in Range(SymbolBased) => source_name \in symbolRows ) =>
               Fetches(source_name)]_vars

\* C32: a run that ends because a required credential (FRED_API_KEY or
\* EIA_TOKEN, of a source that is enabled) is not set has issued the fetch
\* of no source.
C32_ConfigErrorBeforeFetch == raisedBy = "credential" => issued = <<>>

\* C35: the fetcher collect_symbol_based_data calls for an enabled source
\* with identifiers processes the table _prepare_symbols_for_source
\* selected: the call does not fail because of the columns of that table.
C35_HandOff == raisedBy # "shape"

(***************************************************************************)
(* Specification of the preparation of a source's identifier table, as a   *)
(* function of the table: DataCollectionPipeline._prepare_symbols_for_     *)
(* source, which the collection calls before the fetch, and                *)
(* SymbolProcessor.prepare_symbols_for_fetch.  One call is made.           *)
(***************************************************************************)
\* A missing value of a cell (NaN).
Null == "NaN"

\* Values of the symbol column: an identifier, the empty string, missing.
SymbolKeys == {"AAPL", "", Null}

\* Values of the source column.
SymbolSources == {"yahoo", "FRED"}

\* default_start_date of prepare_symbols_for_fetch
default_start_date == "1900-01-01"

\* Values of the date_series_start column: missing, a date in the form
\* YYYY-MM-DD, the same date in another form pd.to_datetime parses, and a
\* string it does not parse.
StartDates == {Null, "2020-01-05", "01/05/2020", "soon"}

\* Whether pd.to_datetime parses the string.
Parses(date) == date \in {"2020-01-05", "01/05/2020", default_start_date}

\* pd.to_datetime(date).strftime('%Y-%m-%d')
Strftime(date) == IF date = "01/05/2020" THEN "2020-01-05" ELSE date

\* Whether a string has the form YYYY-MM-DD.
IsIso(date) == date \in {"2020-01-05", default_start_date}

SymbolRecords == [symbol : SymbolKeys, source : SymbolSources, date_series_start : StartDates]

\* _prepare_symbols_for_source(symbols_df, source): the rows of the source,
\* with the columns symbol, source, description, date_series_start.
prepare_symbols_for_source(symbols_df, source) ==
  SelectSeq(symbols_df, LAMBDA row : Lower(row.source) = Lower(source))

\* SymbolProcessor._filter_by_source
filter_by_source(symbols_df, source_type) ==
  SelectSeq(symbols_df, LAMBDA row : Lower(row.source) = Lower(source_type))

\* SymbolProcessor._add_default_dates: fillna(default_start_date)
add_default_dates(symbols_df, default) ==
  [k \in 1..Len(symbols_df) |->
     IF symbols_df[k].date_series_start = Null
     THEN [symbols_df[k] EXCEPT !.date_series_start = default]
     ELSE symbols_df[k]]

\* SymbolProcessor._validate_date_format: the column is rewritten when all
\* of it parses, and kept as it is when pd.to_datetime raises.
validate_date_format(symbols_df) ==
  IF \A k \in 1..Len(symbols_df) : Parses(symbols_df[k].date_series_start)
  THEN [k \in 1..Len(symbols_df) |->
          [symbols_df[k] EXCEPT !.date_series_start = Strftime(@)]]
  ELSE symbols_df

\* SymbolProcessor._validate_symbol_format: dropna(subset=['symbol']), then
\* the dates.
validate_symbol_format(symbols_df) ==
  validate_date_format(SelectSeq(symbols_df, LAMBDA row : row.symbol # Null))

\* SymbolProcessor.prepare_symbols_for_fetch
prepare_symbols_for_fetch(symbols_df, source_type) ==
  IF symbols_df = <<>> \/ filter_by_source(symbols_df, source_type) = <<>>
  THEN <<>>
  ELSE validate_symbol_format(
         add_default_dates(filter_by_source(symbols_df, source_type), default_start_date))

PrepareInit ==
  /\ prep = NoPrepared
  /\ NotPrepareIdle

\* yahoo_symbols = self._prepare_symbols_for_source(symbols_df, 'yahoo'), and
\* the same for FRED and EIA: the table is handed to the fetch as returned.
PrepareForSource ==
  /\ prep.op = "none"
  /\ \E symbols_df \in SeqsUpTo(SymbolRecords, MaxSymbols), source \in {"yahoo", "fred"} :
       prep' = Prepared("_prepare_symbols_for_source", symbols_df, source,
                        prepare_symbols_for_source(symbols_df, source))
  /\ UNCHANGED notPrepareVars

\* SymbolProcessor().prepare_symbols_for_fetch(symbols_df, source_type)
PrepareForFetch ==
  /\ prep.op = "none"
  /\ \E symbols_df \in SeqsUpTo(SymbolRecords, MaxSymbols), source_type \in {"yahoo", "fred"} :
       prep' = Prepared("prepare_symbols_for_fetch", symbols_df, source_type,
                        prepare_symbols_for_fetch(symbols_df, source_type))
  /\ UNCHANGED notPrepareVars

PrepareNext == PrepareForSource \/ PrepareForFetch

SpecPrepare == PrepareInit /\ [][PrepareNext]_vars

\* C31: the identifier table the collection hands to a source's fetch holds
\* rows of that source only, no row with a missing or empty key, a start
\* date in every row, and every start date in the form YYYY-MM-DD.
C31_IdentifierPreparation ==
  prep.op = "_prepare_symbols_for_source" =>
    \A k \in 1..Len(prep.out) :
      /\ Lower(prep.out[k].source) = prep.source
      /\ prep.out[k].symbol \notin {Null, ""}
      /\ prep.out[k].date_series_start # Null
      /\ IsIso(prep.out[k].date_series_start)

(***************************************************************************)
(* Specification of the OCC fetcher run after run: fetch_batch chooses     *)
(* between the full historical fetch and the incremental fetch from the    *)
(* months stg_occ holds, the months it requests are served and committed,  *)
(* and the calendar advances.  Months are counted from 2008-01.            *)
(***************************************************************************)
\* _get_missing_recent_months(lookback_months=3)
lookback_months == 3

\* elif missing_count <= 3: the gap the incremental fetch is left to close
few_months == 3

\* expected_months: 2008-01 to the current month
expected_months(now) == 0..now

should_fetch_full_on_any_gap(readable, table, now) ==
  \/ ~readable
  \/ ~table.exists
  \/ table.months = {}
  \/ expected_months(now) \ table.months # {}

\* _should_do_full_historical_fetch: True when the database or the table
\* cannot be read, when the table holds no row, and when more than a few
\* expected months are missing.
should_do_full_historical_fetch(readable, table, now) ==
  IF ~readable \/ ~table.exists
  THEN TRUE
  ELSE IF table.months = {}
       THEN TRUE
       ELSE LET missing_months == expected_months(now) \ table.months
                missing_count == Cardinality(missing_months)
            IN  IF missing_count = 0 THEN FALSE
                ELSE IF missing_count = 1 /\ now \in missing_months THEN FALSE
                ELSE IF missing_count <= few_months THEN FALSE
                ELSE TRUE

\* fetch_full_historical_data: fetch_batch_without_saving(2008, current_year,
\* max_months=None) requests every month from 2008-01 to the current one.
fetch_full_historical_data(now) == expected_months(now)

\* _get_missing_recent_months: the months among the last lookback_months
\* (the current one included) that the table holds no row of; a failed read
\* leaves existing_months empty.
get_missing_recent_months(readable, table, now) ==
  LET existing_months == IF readable /\ table.exists THEN table.months ELSE {}
      recent_months == {now - i : i \in 0..(lookback_months - 1)}
  IN  recent_months \ existing_months

\* fetch_incremental_data: the months it requests
fetch_incremental_data(readable, table, now) ==
  get_missing_recent_months(readable, table, now)

\* OCCDailyDataFetcher.fetch_batch
occ_fetch_batch(tick, readable, table, now) ==
  IF should_do_full_historical_fetch(readable, table, now)
  THEN OccFetched(tick, readable, "full", fetch_full_historical_data(now))
  ELSE OccFetched(tick, readable, "incremental", fetch_incremental_data(readable, table, now))

\* The rows of the months requested are served and stored in stg_occ.
commit_months(table, requested) ==
  IF requested = {} THEN table ELSE OccTable(TRUE, table.months \cup requested)

CoverageInit ==
  /\ occNow \in (lookback_months - 1)..MaxMonth
  /\ stg_occ \in {OccTable(FALSE, {})} \cup {OccTable(TRUE, M) : M \in SUBSET expected_months(occNow)}
  /\ occRun = NoOccFetch
  /\ NotCoverageIdle

\* A month passes.
NextMonth ==
  /\ occNow < MaxMonth
  /\ occNow' = occNow + 1
  /\ UNCHANGED <<stg_occ, occRun>>
  /\ UNCHANGED notCoverageVars

\* A run: fetch_occ(), and the rows it returns are stored.
OccFetch ==
  /\ \E readable \in BOOLEAN :
       occRun' = occ_fetch_batch(~occRun.tick, readable, stg_occ, occNow)
  /\ stg_occ' = commit_months(stg_occ, occRun'.requested)
  /\ UNCHANGED occNow
  /\ UNCHANGED notCoverageVars

CoverageNext == NextMonth \/ OccFetch

SpecCoverage == CoverageInit /\ [][CoverageNext]_vars

\* Runs are made again and again.
SpecCoverageLive == SpecCoverage /\ WF_vars(OccFetch)

\* The expected months stg_occ holds no row of.
MissingMonths == expected_months(occNow) \ stg_occ.months

\* A step that is a run of the OCC fetcher.
IsOccFetch == occRun'.tick # occRun.tick

\* C36: fetch_batch of the OCC fetcher makes the full historical fetch, of
\* every month from 2008-01 to the current one, exactly when stg_occ cannot
\* be read, holds no row, or lacks more than 3 of the expected months;
\* otherwise it makes the incremental fetch.
C36_FullOrIncremental ==
  [][IsOccFetch =>
       /\ occRun'.mode \in {"full", "incremental"}
       /\ occRun'.mode = "full" <=>
            \/ ~occRun'.readable
            \/ ~stg_occ.exists
            \/ stg_occ.months = {}
            \/ Cardinality(MissingMonths) > 3
       /\ occRun'.mode = "full" => occRun'.requested = 0..occNow]_vars

\* An incremental fetch was made of a table that lacks 3 expected months.
C36_Witness ==
  /\ occRun.mode = "incremental"
  /\ occRun.readable
  /\ occRun.requested = {}
  /\ Cardinality(MissingMonths) = 3

\* C37: whenever stg_occ lacks at most 3 of the expected months, runs made
\* again and again, every month requested being served and stored, lead to
\* a table that lacks none.
C37_SmallGapsCaughtUp ==
  (stg_occ.exists /\ stg_occ.months # {} /\ Cardinality(MissingMonths) <= 3)
    ~> (MissingMonths = {})

(***************************************************************************)
(* Specification of OCCDailyDataFetcher.fetch_batch_without_saving as a    *)
(* function of its arguments and of the date.  Years are counted from      *)
(* 2008.  One call is made.                                                *)
(***************************************************************************)
\* range(1, 13): the months of a year
months_in_year == 12

\* list(range(1, n + 1))
UpTo(n) == [k \in 1..n |-> k]

\* seq[-k:]
LastOf(seq, k) == SubSeq(seq, Len(seq) - k + 1, Len(seq))

Min(a, b) == IF a <= b THEN a ELSE b

\* month_range of a year that is not in the future: up to the current month
\* in the current year, all the months of a past year.
month_range(year, current_year, current_month) ==
  IF year = current_year
  THEN UpTo(Min(current_month + 1, months_in_year + 1) - 1)
  ELSE UpTo(months_in_year)

\* target_months of a year, when months_fetched months have been requested.
target_months(range, max_months, months_fetched) ==
  IF max_months = None
  THEN range
  ELSE IF max_months[1] - months_fetched > 0
       THEN LastOf(range, Min(Len(range), max_months[1] - months_fetched))
       ELSE <<>>

RECURSIVE YearsFrom(_, _, _, _, _, _)
\* for year in range(start_year, end_year + 1): ..., from year on, with the
\* months requested so far; months_fetched is their number.
YearsFrom(year, end_year, max_months, current_year, current_month, requested) ==
  IF year > end_year
  THEN requested
  ELSE IF year > current_year
       THEN YearsFrom(year + 1, end_year, max_months, current_year, current_month, requested)
       ELSE IF max_months # None /\ Len(requested) >= max_months[1]
            THEN requested
            ELSE LET target == target_months(month_range(year, current_year, current_month),
                                             max_months, Len(requested))
                 IN  YearsFrom(year + 1, end_year, max_months, current_year, current_month,
                               requested \o [k \in 1..Len(target) |-> <<year, target[k]>>])

\* fetch_batch_without_saving(start_year, end_year, max_months): the months
\* passed to extract_month_data_single.
fetch_batch_without_saving(start_year, end_year, max_months, current_year, current_month) ==
  YearsFrom(start_year, IF end_year = None THEN start_year ELSE end_year[1],
            max_months, current_year, current_month, <<>>)

SelectInit ==
  /\ sel = NoSelection
  /\ NotSelectIdle

SelectMonths ==
  /\ ~sel.called
  /\ \E start_year \in 0..MaxYear, current_year \in 0..MaxYear,
        current_month \in 1..months_in_year,
        end_year \in {None} \cup {Some(y) : y \in 0..MaxYear},
        max_months \in {None} \cup {Some(n) : n \in 0..MaxMonths} :
       sel' = Selection(TRUE, start_year, end_year, max_months, current_year, current_month,
                        fetch_batch_without_saving(start_year, end_year, max_months,
                                                   current_year, current_month))
  /\ UNCHANGED notSelectVars

SelectNext == SelectMonths

SpecSelect == SelectInit /\ [][SelectNext]_vars

\* Whether a month is later than another.
Later(a, b) == a[1] > b[1] \/ (a[1] = b[1] /\ a[2] > b[2])

\* The months of the years start_year to end_year that are not later than
\* the current month.
InRangeMonths ==
  {ym \in (sel.start_year..(IF sel.end_year = None THEN sel.start_year ELSE sel.end_year[1]))
            \X (1..months_in_year) :
     ~Later(ym, <<sel.current_year, sel.current_month>>)}

\* C38: whatever start_year, end_year and max_months are,
\* fetch_batch_without_saving requests no month later than the current one,
\* and when max_months is given it requests at most max_months months, which
\* are the most recent months of the range.
C38_MonthSelection ==
  sel.called =>
    /\ \A k \in 1..Len(sel.requested) :
         ~Later(sel.requested[k], <<sel.current_year, sel.current_month>>)
    /\ sel.max_months # None =>
         /\ Len(sel.requested) <= sel.max_months[1]
         /\ Range(sel.requested) \subseteq InRangeMonths
         /\ Cardinality(Range(sel.requested))
              = Min(sel.max_months[1], Cardinality(InRangeMonths))
         /\ \A ym \in InRangeMonths \ Range(sel.requested) :
              \A r \in Range(sel.requested) : Later(r, ym)

(***************************************************************************)
(* Specification of the browser sessions of the OCC fetcher: calls of      *)
(* extract_month_data_single and extract_year_with_session_management on   *)
(* one fetcher, statement by statement.  start_driver may raise before or  *)
(* after it has assigned self.driver; extract_month_data catches what it   *)
(* raises.                                                                 *)
(***************************************************************************)
\* A session that has just been started.
Started == [open |-> TRUE, quits |-> 0]

\* close_driver: if self.driver: self.driver.quit()
close_driver(d, all) ==
  IF d # 0
  THEN [all EXCEPT ![d] = [open |-> FALSE, quits |-> @.quits + 1]]
  ELSE all

\* total_batches = (12 + batch_size - 1) // batch_size
total_batches(batch_size) == (months_in_year + batch_size - 1) \div batch_size

SessionInit ==
  /\ driver = 0
  /\ sessions = <<>>
  /\ spc = At("none", "none", 0, 0, 0)
  /\ NotSessionIdle

\* extract_month_data_single(year, month) is called.
CallSingle ==
  /\ spc.fn = "none"
  /\ spc.calls < MaxCalls
  /\ spc' = At("single", "start", 0, 1, spc.calls + 1)
  /\ UNCHANGED <<driver, sessions>>
  /\ UNCHANGED notSessionVars

\* extract_year_with_session_management(year, batch_size) is called.
CallYear ==
  /\ spc.fn = "none"
  /\ spc.calls < MaxCalls
  /\ \E batch_size \in {6, 12} :
       spc' = At("year", "start", 0, total_batches(batch_size), spc.calls + 1)
  /\ UNCHANGED <<driver, sessions>>
  /\ UNCHANGED notSessionVars

\* self.start_driver(): ChromeDriverManager().install() or webdriver.Chrome
\* raises, and self.driver is left as it was; or the session is started and
\* assigned to self.driver, after which execute_script or maximize_window
\* may raise.
StartDriver ==
  /\ spc.pc = "start"
  /\ \/ /\ spc' = [spc EXCEPT !.pc = "except"]
        /\ UNCHANGED <<driver, sessions>>
     \/ /\ Len(sessions) < MaxSessions
        /\ sessions' = Append(sessions, Started)
        /\ driver' = Len(sessions) + 1
        /\ \E raised \in BOOLEAN :
             spc' = [spc EXCEPT !.pc = IF raised THEN "except" ELSE "extract"]
  /\ UNCHANGED notSessionVars

\* self.extract_month_data(year, month), for the month or for the months of
\* the batch: it returns the data or None.
ExtractMonths ==
  /\ spc.pc = "extract"
  /\ spc' = [spc EXCEPT !.pc = "finally"]
  /\ UNCHANGED <<driver, sessions>>
  /\ UNCHANGED notSessionVars

\* except Exception: extract_month_data_single logs and goes on to its
\* finally; extract_year_with_session_management, whose start_driver is
\* outside the inner try, calls close_driver and returns.
HandleStart ==
  /\ spc.pc = "except"
  /\ IF spc.fn = "single"
     THEN /\ spc' = [spc EXCEPT !.pc = "finally"]
          /\ UNCHANGED sessions
     ELSE /\ spc' = At("none", "none", 0, 0, spc.calls)
          /\ sessions' = close_driver(driver, sessions)
  /\ UNCHANGED driver
  /\ UNCHANGED notSessionVars

\* finally: self.close_driver(); then the function returns, or the next
\* batch of the year begins.
CloseDriver ==
  /\ spc.pc = "finally"
  /\ sessions' = close_driver(driver, sessions)
  /\ spc' = IF spc.fn = "year" /\ spc.batch_num + 1 < spc.total_batches
            THEN [spc EXCEPT !.pc = "start", !.batch_num = @ + 1]
            ELSE At("none", "none", 0, 0, spc.calls)
  /\ UNCHANGED driver
  /\ UNCHANGED notSessionVars

SessionNext ==
  \/ CallSingle
  \/ CallYear
  \/ StartDriver
  \/ ExtractMonths
  \/ HandleStart
  \/ CloseDriver

SpecSession == SessionInit /\ [][SessionNext]_vars

\* The sessions that are open.
OpenSessions == {k \in 1..Len(sessions) : sessions[k].open}

\* C39: a session started by extract_year_with_session_management or by
\* extract_month_data_single is closed before the next one is started and
\* before the function returns, whether it succeeds or fails: at most one
\* session is open at a time, none is open when a session is about to be
\* started or when no function is running, and no session is closed twice.
C39_SessionLifecycle ==
  /\ Cardinality(OpenSessions) <= 1
  /\ spc.pc = "start" => OpenSessions = {}
  /\ spc.fn = "none" => OpenSessions = {}
  /\ \A k \in 1..Len(sessions) : sessions[k].quits <= 1

====
